---- MODULE Spec2Model ----
(***************************************************************************)
(* A model of the xvisio-rs driver (questspace/northstar-webxr).           *)
(*                                                                         *)
(* Spec       the streaming engine of slam.rs: one reader thread, the      *)
(*            bounded channel, the consumers and the stream handle.        *)
(* FairSpec   Spec with the scheduling of the reader thread and of the     *)
(*            joining thread made explicit.                                *)
(* SpecStart  Device::start_slam of device.rs on its three startup paths,  *)
(*            every transport call a step of its own whose outcome the     *)
(*            device decides, and Device::hid_command around it.           *)
(* SpecRetry  the macOS hidapi path with its edge-stream retry loop.       *)
(* SpecOpen   list_devices, open_first and open of device.rs.              *)
(* SpecCodec  build_command and validate_response of protocol.rs on        *)
(*            bounded inputs.                                              *)
(* SpecDecode parse_slam_packet and parse_features of protocol.rs on       *)
(*            bounded inputs.                                              *)
(* SpecReader the readers of slam.rs with every read, the frame handed on  *)
(*            and the host clock kept.                                     *)
(* SpecErrors slam_reader_rusb on a transport whose reads keep failing.    *)
(* SpecReconnect the macOS hidapi path with the reconnects of all three    *)
(*            retried commands.                                            *)
(* SpecUsbOpen the raw-USB path with open_rusb_handle_with_detach and      *)
(*            open_rusb_handle_no_detach run to their last attempt.        *)
(* SpecRawUsb the raw-USB path over its environment: precondition cycles,  *)
(*            the main sequence, the reopen and the detach fallback.       *)
(***************************************************************************)
EXTENDS Integers, Sequences, FiniteSets, TLC

VARIABLES
    backend,             \* which reader the stream runs: "hidapi" | "rusb"
    stop_flag,           \* SlamStream.stop_flag (Arc<AtomicBool>)
    queue,               \* the samples held by the crossbeam channel
    rpc,                 \* reader thread: "loop" | "read" | "exited" | "panicked"
    consecutive_errors,  \* slam_reader_rusb's local counter
    parsed,              \* number of samples parse_slam_packet has produced;
                         \* the n-th sample parsed is written n
    drops,               \* number of "SLAM channel full, dropping sample" events
    lastReadGone,        \* the last transport read reported the device gone
    hpc,                 \* stream handle: "live" | "joining" | "stop_drop" | "dropped"
    delivered,           \* the samples consumers have received, in order
    lastRecv             \* the last consumer call and its result

svars == <<backend, stop_flag, queue, rpc, consecutive_errors, parsed, drops,
           lastReadGone, hpc, delivered, lastRecv>>

VARIABLES
    platform,            \* cfg!(target_os): "macos" | "other"
    env,                 \* the XVISIO_* environment variables
    dev,                 \* the Device: whether its hid and api fields are Some
    ss,                  \* the running start_slam call: its arguments, where it
                         \* stands, its loop counters, the rusb handle it holds,
                         \* what it did on the transport and what it returned
    calls,               \* number of start_slam calls made
    cmdResult            \* what the last hid_command did

dvars == <<platform, env, dev, ss, calls, cmdResult>>

VARIABLES
    opening,             \* the running or last call of list_devices, open_first
                         \* or open: the devices enumerated, where the call
                         \* stands, the commands it sent and what it returned
    codec                \* a call of a function of protocol.rs: its arguments
                         \* and what it returned

ovars == <<opening, codec>>

vars == <<svars, dvars, ovars>>

(***************************************************************************)
(* Program constants                                                       *)
(***************************************************************************)
CHANNEL_CAPACITY == 256

REPORT_SIZE == 63

READ_BUF_SIZE == 64

MAX_CONSECUTIVE_ERRORS == 1000

HID_INTERFACE == 3

PREFIX_HOST_TO_DEVICE == 2

PREFIX_DEVICE_TO_HOST == 1

VID == 1038

PID == 62472

CMD_UUID == <<253, 102, 0, 2>>

CMD_VERSION == <<28, 153>>

CMD_FEATURES == <<222, 98, 1>>

RECONNECT_ATTEMPTS == 40

OPEN_WITH_DETACH_ATTEMPTS == 10

OPEN_NO_DETACH_ATTEMPTS == 20

CMD_CONFIGURE == <<25, 149>>

CMD_EDGE_STREAM == <<162, 51>>

CMD_STEREO_CAMERA_INIT == <<254, 32, 33>>

CMD_STEREO_CAMERA_START == <<254, 32, 34>>

SLAM_HEADER == <<1, 162, 51>>

\* SCALE is 1 / SCALE_DEN
SCALE_DEN == 16384

(***************************************************************************)
(* Bounds of the model                                                     *)
(***************************************************************************)
\* samples the reader may parse in a run of Spec
MaxPoses == 258

\* consecutive failed interrupt reads explored in Spec
MaxErrs == 1

\* samples the consumers may take in a run of Spec
MaxRecv == 2

\* transport calls that may fail during one start_slam call of SpecStart
MaxFaults == 1

\* start_slam calls in a run of SpecStart
MaxStarts == 1

\* environment variables that may be set at once in SpecStart
MaxEnvSet == 2

\* edge-stream writes that may fail during one start_slam call of SpecRetry
MaxRetryFaults == 40

\* start_slam calls, and transport calls that may fail during one of them,
\* in SpecReconnect
MaxReconnectStarts == 1
MaxReconnectFaults == 3

\* start_slam calls and failing transport calls in a run of SpecRawUsb
MaxRawStarts == 1
MaxRawFaults == 1

\* start_slam calls in SpecUsbOpen, transport calls that may fail during one
\* of them, and enumerations during it that may not hold the device
MaxUsbStarts == 1
MaxUsbFaults == 1
MaxNotFound == 30

\* devices api.device_list() may hold in SpecOpen
MaxDevices == 2

\* bytes of a response buffer and of a short command in SpecCodec; bytes a
\* long command is shorter or longer than the 62 a report holds
MaxResponseLen == 3
MaxCmdLen == 2
MaxOver == 2

\* bytes that may follow a packet, bytes of a features payload, and ticks of
\* the host clock between epoch and a call of parse_slam_packet in SpecDecode
MaxExtra == 1
MaxPayloadLen == 5
MaxElapsed == 1

\* samples the reader may parse and ticks of the host clock in SpecReader
MaxTracedPoses == 3
MaxClock == 2

\* consecutive failed interrupt reads in SpecReader
MaxTracedErrs == 2

\* consecutive failed interrupt reads explored in SpecErrors
MaxConsecutive == 1002

(***************************************************************************)
(* What a transport read can return.  A frame is its length and its first  *)
(* three bytes; the rest of the buffer does not decide what the reader     *)
(* does with it.                                                           *)
(***************************************************************************)
FrameLens == {0, 2, 62, 63, 64}

FrameHeads == {<<1, 162, 51>>, <<162, 51, 7>>, <<1, 162, 0>>, <<0, 0, 0>>}

Frames == [kind : {"Ok"}, len : FrameLens, head : FrameHeads]

NoFrame(k) == [kind |-> k, len |-> 0, head |-> <<0, 0, 0>>]

HidapiReads == Frames \cup {NoFrame("HidError")}

RusbReads ==
    Frames \cup {NoFrame(k) : k \in {"Timeout", "NoDevice", "PipeOrIo", "Other"}}

\* the read reported that the device has disappeared
DeviceGone(kind) == kind \in {"NoDevice", "HidError"}

(***************************************************************************)
(* protocol.rs: the header test of parse_slam_packet                       *)
(***************************************************************************)
parse_slam_packet_some(len, head) ==
    /\ len >= REPORT_SIZE
    /\ head[1] = SLAM_HEADER[1]
    /\ head[2] = SLAM_HEADER[2]
    /\ head[3] = SLAM_HEADER[3]

(***************************************************************************)
(* The channel                                                             *)
(***************************************************************************)
\* the reader thread has returned or unwound: its Sender is dropped
ReaderTerminated == rpc \in {"exited", "panicked"}

\* the Receiver lives in the SlamStream until the handle is dropped
ReceiverAlive == hpc # "dropped"

\* a channel that never reports Full
try_send_never_full(q) ==
    IF ~ReceiverAlive THEN "Disconnected" ELSE "Ok"

\* a channel that reports Full one message too late
try_send_off_by_one(q) ==
    IF ~ReceiverAlive THEN "Disconnected"
    ELSE IF Len(q) > CHANNEL_CAPACITY THEN "Full"
    ELSE "Ok"

try_send(q) ==
    IF ~ReceiverAlive THEN "Disconnected"
    ELSE IF Len(q) >= CHANNEL_CAPACITY THEN "Full"
    ELSE "Ok"

\* a receive that takes the newest message
channel_pop_newest(q) == q[Len(q)]

\* the message a receive takes from the channel
channel_pop(q) == Head(q)

channel_rest(q) == Tail(q)

(***************************************************************************)
(* slam.rs: dispatch_sample                                                *)
(***************************************************************************)
\* a full channel that makes room by giving up its oldest message
queue_after_send_evicts_oldest(sent, q, sample) ==
    IF sent = "Ok" THEN Append(q, sample)
    ELSE IF sent = "Full" THEN Append(Tail(q), sample)
    ELSE q

\* the channel after try_send(sample): Err(Full(_)) and Err(Disconnected(_))
\* give the sample back and leave the channel as it was
queue_after_send(sent, q, sample) ==
    IF sent = "Ok" THEN Append(q, sample) ELSE q

\* a reader that stores whether the channel is disconnected
stop_flag_follows_send(sent, flag) == sent = "Disconnected"

\* the flag after the match on the error of try_send: only the Disconnected
\* arm stores, and it stores true
stop_flag_after_send(sent, flag) ==
    IF sent = "Disconnected" THEN TRUE ELSE flag

dispatch_sample(len, head) ==
    IF parse_slam_packet_some(len, head)
    THEN LET sample == parsed + 1
             sent == try_send(queue)
         IN  /\ parsed' = parsed + 1
             /\ queue' = queue_after_send(sent, queue, sample)
             /\ drops' = IF sent = "Full" THEN drops + 1 ELSE drops
             /\ stop_flag' = stop_flag_after_send(sent, stop_flag)
    ELSE UNCHANGED <<parsed, queue, drops, stop_flag>>

(***************************************************************************)
(* slam.rs: the reader loops                                               *)
(***************************************************************************)
\* a reader that never looks at the flag
reader_ignores_stop == FALSE

\* the stop-flag test at the head of the loop
reader_sees_stop == stop_flag

slam_reader_loop_head ==
    /\ rpc = "loop"
    /\ rpc' = IF reader_sees_stop THEN "exited" ELSE "read"
    /\ UNCHANGED <<dvars, ovars>>
    /\ UNCHANGED <<backend, stop_flag, queue, consecutive_errors, parsed, drops,
                   lastReadGone, hpc, delivered, lastRecv>>

\* the frame slam_reader_hidapi hands to dispatch_sample, if any
hidapi_dispatches(r) ==
    r.kind = "Ok" /\ r.len >= REPORT_SIZE /\ r.head[1] = SLAM_HEADER[1]

\* the interrupt frame starts at the opcode echo: the reader prepends 0x01
rusb_needs_prefix(r) ==
    r.len >= 2 /\ r.head[1] = SLAM_HEADER[2] /\ r.head[2] = SLAM_HEADER[3]

\* buf.copy_within(0..len, 1) on the 64-byte buffer
copy_within_in_bounds(len) == len + 1 <= READ_BUF_SIZE

Min(a, b) == IF a < b THEN a ELSE b

Dispatch(len, head) == [act |-> "dispatch", len |-> len, head |-> head]

Discard == [act |-> "discard", len |-> 0, head |-> <<0, 0, 0>>]

Panic == [act |-> "panic", len |-> 0, head |-> <<0, 0, 0>>]

\* what slam_reader_hidapi does with a read: `&buf[..len]` or `continue`
hidapi_frame(r) ==
    IF hidapi_dispatches(r) THEN Dispatch(r.len, r.head) ELSE Discard

\* what slam_reader_rusb does with a read: the frame shifted right with 0x01
\* in front, the frame as it is, nothing, or the panic of copy_within
rusb_frame(r) ==
    IF r.kind # "Ok" THEN Discard
    ELSE IF rusb_needs_prefix(r)
         THEN IF copy_within_in_bounds(r.len)
              THEN Dispatch(Min(r.len + 1, READ_BUF_SIZE),
                            <<SLAM_HEADER[1], r.head[1], r.head[2]>>)
              ELSE Panic
         ELSE IF r.len >= REPORT_SIZE /\ r.head[1] = SLAM_HEADER[1]
              THEN Dispatch(r.len, r.head)
              ELSE Discard

\* a host clock that runs backwards
elapsed_backwards(epoch, now) == epoch - now

\* Instant::elapsed: the time since epoch on the monotonic clock
elapsed(epoch, now) == now - epoch

\* the frame f is a pose: dispatch_sample gets a sample from parse_slam_packet
IsPose(f) == f.act = "dispatch" /\ parse_slam_packet_some(f.len, f.head)

\* In a traced run codec keeps the last read, what the reader made of it, the
\* host clock (epoch is 0) and the host_timestamp_s of every sample parsed.
NoTrace == [fn |-> "none", read |-> NoFrame("none"), frame |-> Discard, now |-> 0,
            stamps |-> <<>>]

log_read(traced, maxClock, r, f) ==
    IF traced
    THEN \E now \in codec.now..Min(codec.now + 1, maxClock) :
           codec' = [fn |-> IF f.act = "dispatch" THEN "parse_slam_packet" ELSE "none",
                     read |-> r,
                     frame |-> f,
                     now |-> now,
                     stamps |-> IF IsPose(f)
                                THEN Append(codec.stamps, elapsed(0, now))
                                ELSE codec.stamps]
    ELSE UNCHANGED codec

slam_reader_hidapi_read(maxPoses, traced, maxClock) ==
    /\ rpc = "read"
    /\ backend = "hidapi"
    /\ \E r \in HidapiReads :
        /\ IsPose(hidapi_frame(r)) => parsed < maxPoses
        /\ lastReadGone' = DeviceGone(r.kind)
        /\ log_read(traced, maxClock, r, hidapi_frame(r))
        /\ IF hidapi_frame(r).act = "dispatch"
           THEN /\ dispatch_sample(hidapi_frame(r).len, hidapi_frame(r).head)
                /\ rpc' = "loop"
           ELSE /\ UNCHANGED <<parsed, queue, drops, stop_flag>>
                /\ rpc' = "loop"
    /\ UNCHANGED <<dvars, opening>>
    /\ UNCHANGED <<backend, consecutive_errors, hpc, delivered, lastRecv>>

\* a counter that a timeout resets
errors_after_read_timeout_resets(kind, n) ==
    IF kind \in {"Ok", "Timeout"} THEN 0
    ELSE IF kind = "NoDevice" THEN n
    ELSE n + 1

\* consecutive_errors after the match on the result of read_interrupt
errors_after_read(kind, n) ==
    IF kind = "Ok" THEN 0
    ELSE IF kind \in {"Timeout", "NoDevice"} THEN n
    ELSE n + 1

slam_reader_rusb_read(maxPoses, maxErrs, traced, maxClock) ==
    /\ rpc = "read"
    /\ backend = "rusb"
    /\ \E r \in RusbReads :
        /\ lastReadGone' = DeviceGone(r.kind)
        /\ IsPose(rusb_frame(r)) => parsed < maxPoses
        /\ log_read(traced, maxClock, r, rusb_frame(r))
        /\ consecutive_errors' = errors_after_read(r.kind, consecutive_errors)
        /\ CASE r.kind = "Ok" ->
                  /\ IF rusb_frame(r).act = "dispatch"
                     THEN /\ dispatch_sample(rusb_frame(r).len, rusb_frame(r).head)
                          /\ rpc' = "loop"
                     ELSE /\ rpc' = IF rusb_frame(r).act = "panic"
                                    THEN "panicked"
                                    ELSE "loop"
                          /\ UNCHANGED <<parsed, queue, drops, stop_flag>>
             [] r.kind = "Timeout" ->
                  /\ rpc' = "loop"
                  /\ UNCHANGED <<parsed, queue, drops, stop_flag>>
             [] r.kind = "NoDevice" ->
                  /\ stop_flag' = TRUE
                  /\ rpc' = "exited"
                  /\ UNCHANGED <<parsed, queue, drops>>
             [] OTHER ->
                  /\ consecutive_errors < maxErrs
                  /\ IF consecutive_errors' > MAX_CONSECUTIVE_ERRORS
                     THEN stop_flag' = TRUE /\ rpc' = "exited"
                     ELSE stop_flag' = stop_flag /\ rpc' = "loop"
                  /\ UNCHANGED <<parsed, queue, drops>>
    /\ UNCHANGED <<dvars, opening>>
    /\ UNCHANGED <<backend, hpc, delivered, lastRecv>>

(***************************************************************************)
(* slam.rs: the consumer side of SlamStream                                *)
(***************************************************************************)
is_active == ~stop_flag

\* Receiver::recv on an empty channel whose sender is gone
recv_error == "StreamStopped"

\* a mapping that reports every failure as Timeout
recv_timeout_error_always_timeout(disconnected) == "Timeout"

\* Receiver::recv_timeout on an empty channel: RecvTimeoutError -> XvisioError
recv_timeout_error(disconnected) ==
    IF disconnected THEN "StreamStopped" ELSE "Timeout"

Take(op) ==
    /\ Len(delivered) < MaxRecv
    /\ queue # <<>>
    /\ delivered' = Append(delivered, channel_pop(queue))
    /\ queue' = channel_rest(queue)
    /\ lastRecv' = [op |-> op, result |-> "Sample"]

Fail(op, err) ==
    /\ queue = <<>>
    /\ lastRecv' = [op |-> op, result |-> err]
    /\ UNCHANGED <<queue, delivered>>

recv ==
    /\ hpc = "live"
    /\ IF queue # <<>> THEN Take("recv")
       ELSE ReaderTerminated /\ Fail("recv", recv_error)
    /\ UNCHANGED <<dvars, ovars>>
    /\ UNCHANGED <<backend, stop_flag, rpc, consecutive_errors, parsed, drops,
                   lastReadGone, hpc>>

try_recv ==
    /\ hpc = "live"
    /\ IF queue # <<>> THEN Take("try_recv") ELSE Fail("try_recv", "None")
    /\ UNCHANGED <<dvars, ovars>>
    /\ UNCHANGED <<backend, stop_flag, rpc, consecutive_errors, parsed, drops,
                   lastReadGone, hpc>>

\* a recv_timeout that takes an elapsed timeout for the end of the stream
recv_timeout_gives_up ==
    /\ hpc = "live"
    /\ IF queue # <<>> THEN Take("recv_timeout")
       ELSE Fail("recv_timeout", "StreamStopped")
    /\ UNCHANGED <<dvars, ovars>>
    /\ UNCHANGED <<backend, stop_flag, rpc, consecutive_errors, parsed, drops,
                   lastReadGone, hpc>>

recv_timeout ==
    /\ hpc = "live"
    /\ IF queue # <<>> THEN Take("recv_timeout")
       ELSE Fail("recv_timeout", recv_timeout_error(ReaderTerminated))
    /\ UNCHANGED <<dvars, ovars>>
    /\ UNCHANGED <<backend, stop_flag, rpc, consecutive_errors, parsed, drops,
                   lastReadGone, hpc>>

(***************************************************************************)
(* slam.rs: stop, Drop and shutdown                                        *)
(***************************************************************************)
\* shutdown, first half (entered from stop() or from Drop): raise the flag,
\* then wait in thread.join()
shutdown_store ==
    /\ hpc = "live"
    /\ stop_flag' = TRUE
    /\ hpc' = "joining"
    /\ UNCHANGED <<dvars, ovars>>
    /\ UNCHANGED <<backend, queue, rpc, consecutive_errors, parsed, drops,
                   lastReadGone, delivered, lastRecv>>

\* thread.join() returns once the reader thread has ended
join_returns == ReaderTerminated

\* shutdown, second half, when shutdown was entered from Drop: the fields of
\* the handle (the Receiver among them) are released
shutdown_join_in_drop ==
    /\ hpc = "joining"
    /\ join_returns
    /\ hpc' = "dropped"
    /\ queue' = <<>>
    /\ UNCHANGED <<dvars, ovars>>
    /\ UNCHANGED <<backend, stop_flag, rpc, consecutive_errors, parsed, drops,
                   lastReadGone, delivered, lastRecv>>

\* shutdown, second half, when shutdown was entered from stop(): stop()
\* returns and the handle it owns is dropped next
shutdown_join_in_stop ==
    /\ hpc = "joining"
    /\ join_returns
    /\ hpc' = "stop_drop"
    /\ UNCHANGED <<dvars, ovars>>
    /\ UNCHANGED <<backend, stop_flag, queue, rpc, consecutive_errors, parsed,
                   drops, lastReadGone, delivered, lastRecv>>

\* Drop::drop at the end of stop(): shutdown again, the thread already taken
drop_after_stop ==
    /\ hpc = "stop_drop"
    /\ stop_flag' = TRUE
    /\ hpc' = "dropped"
    /\ queue' = <<>>
    /\ UNCHANGED <<dvars, ovars>>
    /\ UNCHANGED <<backend, rpc, consecutive_errors, parsed, drops,
                   lastReadGone, delivered, lastRecv>>

(***************************************************************************)
(* protocol.rs: command frames                                             *)
(***************************************************************************)
Zeros(n) == [i \in 1..n |-> 0]

\* the whole of cmd is copied, however long it is
build_command_untruncated(cmd) ==
    <<PREFIX_HOST_TO_DEVICE>> \o cmd \o Zeros(REPORT_SIZE - 1 - Min(Len(cmd), REPORT_SIZE - 1))

build_command(cmd) ==
    LET len == Min(Len(cmd), REPORT_SIZE - 1)
    IN  <<PREFIX_HOST_TO_DEVICE>> \o SubSeq(cmd, 1, len)
            \o Zeros(REPORT_SIZE - 1 - len)

Bit(b) == IF b THEN 1 ELSE 0

\* the configure command with the edge and embeddedAlgo bytes exchanged
build_configure_cmd_swapped(edge, uvc_mode, embedded_algo) ==
    build_command(CMD_CONFIGURE \o <<Bit(embedded_algo), uvc_mode, Bit(edge)>>)

build_configure_cmd_with_uvc(edge, uvc_mode, embedded_algo) ==
    build_command(CMD_CONFIGURE \o <<Bit(edge), uvc_mode, Bit(embedded_algo)>>)

build_edge_stream_cmd_with_params(edge_mode, rotation_enabled, flipped) ==
    build_command(CMD_EDGE_STREAM \o <<edge_mode, Bit(rotation_enabled), Bit(flipped)>>)

build_stereo_camera_init_cmd == build_command(CMD_STEREO_CAMERA_INIT)

build_stereo_camera_start_cmd == build_command(CMD_STEREO_CAMERA_START)

(***************************************************************************)
(* hid.rs: the frames HidTransport writes                                  *)
(***************************************************************************)
configure_with_uvc_frame(edge, uvc_mode, embedded_algo) ==
    build_configure_cmd_with_uvc(edge, uvc_mode, embedded_algo)

configure_frame(edge, embedded_algo) ==
    configure_with_uvc_frame(edge, 0, embedded_algo)

edge_stream_with_params_frame(edge_mode, rotation_enabled, flipped) ==
    build_edge_stream_cmd_with_params(edge_mode, rotation_enabled, flipped)

edge_stream_frame(start) ==
    edge_stream_with_params_frame(Bit(start), start, FALSE)

\* HidTransport::transaction(cmd) writes build_command(cmd)
transaction_frame(cmd) == build_command(cmd)

(***************************************************************************)
(* device.rs: the environment and the arguments of start_slam              *)
(***************************************************************************)
Unset(v) == [set |-> FALSE, val |-> v]

Set(v) == [set |-> TRUE, val |-> v]

EnvNames ==
    {"XVISIO_MAC_BACKEND", "XVISIO_UVC_MODE", "XVISIO_ROTATION_ENABLED",
     "XVISIO_ENABLE_STEREO_INIT", "XVISIO_REOPEN_AFTER_CONFIG",
     "XVISIO_CLAIM_ALL_INTERFACES", "XVISIO_PRECONDITION_CYCLES",
     "XVISIO_REOPEN_AFTER_EDGE_START", "XVISIO_ALLOW_DETACH_FALLBACK"}

EnvSpace ==
    [XVISIO_MAC_BACKEND : {Unset(""), Set("hidapi")},
     XVISIO_UVC_MODE : {Unset(0), Set(0), Set(1)},
     XVISIO_ROTATION_ENABLED : {Unset(FALSE), Set(FALSE)},
     XVISIO_ENABLE_STEREO_INIT : {Unset(FALSE), Set(TRUE)},
     XVISIO_REOPEN_AFTER_CONFIG : {Unset(FALSE), Set(FALSE)},
     XVISIO_CLAIM_ALL_INTERFACES : {Unset(FALSE), Set(TRUE)},
     XVISIO_PRECONDITION_CYCLES : {Unset(0), Set(1), Set(2)},
     XVISIO_REOPEN_AFTER_EDGE_START : {Unset(FALSE), Set(TRUE)},
     XVISIO_ALLOW_DETACH_FALLBACK : {Unset(FALSE), Set(FALSE)}]

NoEnv == CHOOSE e \in EnvSpace : \A n \in EnvNames : ~e[n].set

Envs(maxSet) ==
    {e \in EnvSpace : Cardinality({n \in EnvNames : e[n].set}) <= maxSet}

read_env_bool(name, default) == IF env[name].set THEN env[name].val ELSE default

read_env_u8(name, default) == IF env[name].set THEN env[name].val ELSE default

read_env_string(name, default) == IF env[name].set THEN env[name].val ELSE default

SlamModes == {"Edge", "Mixed"}

\* start_slam: (edge, embedded_algo) of the mode
edge == ss.mode = "Edge"

embedded_algo == ss.mode = "Mixed"

\* start_slam: the startup path taken
StartupPath ==
    IF platform = "macos"
    THEN IF read_env_string("XVISIO_MAC_BACKEND", "rusb") = "hidapi"
         THEN "hidapi_macos"
         ELSE "rusb"
    ELSE "hidapi"

(***************************************************************************)
(* What start_slam does on the transport, in order                         *)
(***************************************************************************)
Ev(e, a, ok) == [ev |-> e, arg |-> a, ok |-> ok, err |-> "none"]

\* a call that failed with the error err
ErrEv(e, a, err) == [ev |-> e, arg |-> a, ok |-> FALSE, err |-> err]

Wrote(frame, o) ==
    IF o = "ok" THEN Ev("write", frame, TRUE) ELSE ErrEv("write", frame, o)

NoSub == [n |-> 0, set |-> 0, i |-> 0, ret |-> "none", last |-> FALSE]

Idle ==
    [pc |-> "idle", mode |-> "Edge", pre_hid |-> TRUE, attempt |-> 0,
     cycle |-> 0, sub |-> NoSub, usb |-> FALSE, wire |-> <<>>,
     result |-> "none", faults |-> 0]

\* a transport call may fail while the call's budget of failures lasts
MayFail(o, maxFaults) == o = "ok" \/ ss.faults < maxFaults

Charged(o) == IF o = "ok" THEN ss.faults ELSE ss.faults + 1

\* start_slam returns Err(r); a rusb handle it holds is dropped
Return(r, w, f) ==
    ss' = [ss EXCEPT !.pc = "done", !.result = r, !.wire = w, !.faults = f,
                     !.usb = FALSE]

\* the reader thread of a new stream starts
StreamStarts(b) ==
    /\ backend' = b
    /\ rpc' = "loop"
    /\ hpc' = "live"
    /\ UNCHANGED <<stop_flag, queue, consecutive_errors, parsed, drops,
                   lastReadGone, delivered, lastRecv>>

\* the call of open_rusb_handle_no_detach; a handle held before is dropped
EnterOpenNoDetach(rec, ret) ==
    [rec EXCEPT !.pc = "rusb_enum", !.usb = FALSE,
                !.sub = [NoSub EXCEPT !.n = 1, !.ret = ret]]

\* start_slam_rusb enters its main sequence ("Main sequence: claim interfaces
\* without detach...") with the first open_rusb_handle_no_detach
EnterMain(rec) ==
    EnterOpenNoDetach([rec EXCEPT !.wire = Append(@, Ev("main_sequence", <<>>, TRUE))],
                      "rusb_configure")

(***************************************************************************)
(* device.rs: Device::hid_command                                          *)
(***************************************************************************)
\* the transport the command goes to, if the session still has one
hid_command_transport == dev.hid

hid_command ==
    /\ ss.pc \in {"idle", "done"}
    /\ cmdResult' = IF hid_command_transport THEN "transaction" ELSE "HidCommand"
    /\ UNCHANGED ovars
    /\ UNCHANGED <<platform, env, dev, ss, calls>>
    /\ UNCHANGED svars

(***************************************************************************)
(* device.rs: Device::start_slam                                           *)
(***************************************************************************)
start_slam(maxStarts) ==
    /\ ss.pc \in {"idle", "done"}
    /\ backend = "none"
    /\ calls < maxStarts
    /\ calls' = calls + 1
    /\ cmdResult' = "none"
    /\ \E m \in SlamModes :
         LET call == [Idle EXCEPT !.mode = m, !.pre_hid = dev.hid]
         IN  CASE StartupPath = "rusb" ->
                    \* drop(self.hid.take()); drop(self.api.take())
                    /\ dev' = [hid |-> FALSE, api |-> FALSE]
                    /\ ss' = IF read_env_u8("XVISIO_PRECONDITION_CYCLES", 0) > 0
                             THEN [call EXCEPT !.pc = "rusb_pre_open", !.cycle = 1,
                                               !.sub.n = 1]
                             ELSE EnterMain(call)
               [] StartupPath = "hidapi_macos" ->
                    /\ dev' = dev
                    /\ ss' = IF dev.hid
                             THEN [call EXCEPT !.pc = "macos_configure"]
                             ELSE [call EXCEPT !.pc = "done", !.result = "HidCommand"]
               [] OTHER ->
                    /\ dev' = dev
                    /\ ss' = IF dev.hid
                             THEN [call EXCEPT !.pc = "hidapi_configure"]
                             ELSE [call EXCEPT !.pc = "done", !.result = "HidCommand"]
    /\ UNCHANGED ovars
    /\ UNCHANGED <<platform, env>>
    /\ UNCHANGED svars

(***************************************************************************)
(* device.rs: start_slam_hidapi (Windows / Linux)                          *)
(***************************************************************************)
WriteOutcomes == {"ok", "disconnected", "other"}

\* hid.configure(edge, embedded_algo)?
hidapi_configure(maxFaults) ==
    /\ ss.pc = "hidapi_configure"
    /\ \E o \in WriteOutcomes :
         /\ MayFail(o, maxFaults)
         /\ LET w == Append(ss.wire, Wrote(configure_frame(edge, embedded_algo), o))
            IN  IF o = "ok"
                THEN ss' = [ss EXCEPT !.pc = "hidapi_edge_stream", !.wire = w]
                ELSE Return("HidCommand", w, Charged(o))
    /\ UNCHANGED ovars
    /\ UNCHANGED <<platform, env, dev, calls, cmdResult>>
    /\ UNCHANGED svars

\* hid.edge_stream(edge)?
hidapi_edge_stream(maxFaults) ==
    /\ ss.pc = "hidapi_edge_stream"
    /\ \E o \in WriteOutcomes :
         /\ MayFail(o, maxFaults)
         /\ LET w == Append(ss.wire, Wrote(edge_stream_frame(edge), o))
            IN  IF o = "ok"
                THEN ss' = [ss EXCEPT !.pc = "hidapi_open_path", !.wire = w]
                ELSE Return("HidCommand", w, Charged(o))
    /\ UNCHANGED ovars
    /\ UNCHANGED <<platform, env, dev, calls, cmdResult>>
    /\ UNCHANGED svars

\* create_hid_api()? and api.open_path(&self.device_path)?
hidapi_open_path(maxFaults) ==
    /\ ss.pc = "hidapi_open_path"
    /\ \E o \in {"ok", "api_failed", "open_failed"} :
         /\ MayFail(o, maxFaults)
         /\ IF o = "ok"
            THEN ss' = [ss EXCEPT !.pc = "hidapi_spawn",
                                  !.wire = Append(@, Ev("open_path", <<>>, TRUE))]
            ELSE Return("Hid",
                        IF o = "open_failed"
                        THEN Append(ss.wire, Ev("open_path", <<>>, FALSE))
                        ELSE ss.wire,
                        Charged(o))
    /\ UNCHANGED ovars
    /\ UNCHANGED <<platform, env, dev, calls, cmdResult>>
    /\ UNCHANGED svars

\* SlamStream::start_hidapi(slam_device, api)
hidapi_spawn(maxFaults) ==
    /\ ss.pc = "hidapi_spawn"
    /\ \E o \in {"ok", "spawn_failed"} :
         /\ MayFail(o, maxFaults)
         /\ IF o = "ok"
            THEN /\ ss' = [ss EXCEPT !.pc = "done", !.result = "Ok",
                                     !.wire = Append(@, Ev("spawn", <<>>, TRUE))]
                 /\ StreamStarts("hidapi")
            ELSE /\ Return("HidCommand",
                           Append(ss.wire, Ev("spawn", <<>>, FALSE)), Charged(o))
                 /\ UNCHANGED svars
    /\ UNCHANGED ovars
    /\ UNCHANGED <<platform, env, dev, calls, cmdResult>>

(***************************************************************************)
(* device.rs: reopen_hid_handle                                            *)
(***************************************************************************)
NoHandles == [hid |-> FALSE, api |-> FALSE]

BothHandles == [hid |-> TRUE, api |-> TRUE]

\* the call of reopen_hid_handle: drop(self.hid.take()); drop(self.api.take())
EnterReopen(rec, ret) ==
    /\ dev' = NoHandles
    /\ ss' = [rec EXCEPT !.pc = "macos_reopen", !.sub = [NoSub EXCEPT !.n = 1,
                                                               !.ret = ret]]

\* one turn of the loop `for attempt in 1..=attempts`
reopen_hid_handle(maxFaults) ==
    /\ ss.pc = "macos_reopen"
    /\ IF ss.sub.n > RECONNECT_ATTEMPTS
       THEN /\ Return("HidCommand", ss.wire, ss.faults)
            /\ dev' = dev
       ELSE \E o \in {"ok", "api_failed", "not_found", "open_failed"} :
              /\ MayFail(o, maxFaults)
              /\ CASE o = "ok" ->
                        /\ dev' = BothHandles
                        /\ ss' = [ss EXCEPT !.pc = ss.sub.ret, !.sub = NoSub,
                                            !.wire = Append(@, Ev("reopen", <<>>, TRUE))]
                   [] o = "api_failed" ->
                        /\ dev' = dev
                        /\ Return("Hid", ss.wire, Charged(o))
                   [] o = "not_found" ->
                        /\ dev' = dev
                        /\ ss' = [ss EXCEPT !.sub.n = @ + 1, !.faults = Charged(o)]
                   [] OTHER ->
                        /\ dev' = dev
                        /\ ss' = [ss EXCEPT !.sub.n = @ + 1, !.faults = Charged(o),
                                            !.wire = Append(@, Ev("reopen", <<>>, FALSE))]
    /\ UNCHANGED ovars
    /\ UNCHANGED <<platform, env, calls, cmdResult>>
    /\ UNCHANGED svars

(***************************************************************************)
(* device.rs: start_slam_hidapi_macos                                      *)
(***************************************************************************)
\* a loop that takes every error for a lost device
Retryable_any(o) == o # "ok"

\* an error whose lower-cased text contains "disconnected", "no such device"
\* or "not found"
Retryable(o) == o = "disconnected"

macos_after_configure ==
    IF read_env_bool("XVISIO_ENABLE_STEREO_INIT", FALSE)
    THEN "macos_stereo_init"
    ELSE "macos_edge_stream"

\* hid.configure_with_uvc(edge, uvc_mode, embedded_algo)?, then
\* reopen_hid_handle if reopen_after_config
macos_configure(maxFaults) ==
    /\ ss.pc = "macos_configure"
    /\ \E o \in WriteOutcomes :
         /\ MayFail(o, maxFaults)
         /\ LET frame == configure_with_uvc_frame(edge, read_env_u8("XVISIO_UVC_MODE", 1),
                                                  embedded_algo)
                rec == [ss EXCEPT !.wire = Append(@, Wrote(frame, o)), !.attempt = 1]
            IN  CASE o # "ok" ->
                       /\ Return("HidCommand", rec.wire, Charged(o))
                       /\ dev' = dev
                  [] o = "ok" /\ read_env_bool("XVISIO_REOPEN_AFTER_CONFIG", TRUE) ->
                       EnterReopen(rec, macos_after_configure)
                  [] OTHER ->
                       /\ ss' = [rec EXCEPT !.pc = macos_after_configure]
                       /\ dev' = dev
    /\ UNCHANGED ovars
    /\ UNCHANGED <<platform, env, calls, cmdResult>>
    /\ UNCHANGED svars

TransactionOutcomes == WriteOutcomes \cup {"invalid_response"}

ErrorOf(o) == IF o = "invalid_response" THEN "InvalidResponse" ELSE "HidCommand"

\* the loop runs one turn more than reconnect_attempts
retry_loop_done_late(attempt) == attempt > RECONNECT_ATTEMPTS + 1

\* `for attempt in 1..=reconnect_attempts` has run out
retry_loop_done(attempt) == attempt > RECONNECT_ATTEMPTS

\* one turn of a retry loop `for attempt in 1..=reconnect_attempts` around a
\* command: Ok leaves the loop, a retryable error re-opens the handle and
\* continues, any other error is returned
macos_retry_loop(here, frame, outcomes, maxFaults, onOk, devOnOk) ==
    /\ ss.pc = here
    /\ IF retry_loop_done(ss.attempt)
       THEN /\ Return("HidCommand", ss.wire, ss.faults)
            /\ dev' = dev
       ELSE \E o \in outcomes :
              /\ MayFail(o, maxFaults)
              /\ LET rec == [ss EXCEPT !.wire = Append(@, Wrote(frame, o)),
                                       !.faults = Charged(o)]
                 IN  CASE o = "ok" ->
                            /\ ss' = [rec EXCEPT !.pc = onOk, !.attempt = 1]
                            /\ dev' = devOnOk
                       [] Retryable(o) ->
                            EnterReopen([rec EXCEPT !.attempt = @ + 1], here)
                       [] OTHER ->
                            /\ Return(ErrorOf(o), rec.wire, rec.faults)
                            /\ dev' = dev
    /\ UNCHANGED ovars
    /\ UNCHANGED <<platform, env, calls, cmdResult>>
    /\ UNCHANGED svars

\* hid.stereo_camera_init()
macos_stereo_init(maxFaults) ==
    macos_retry_loop("macos_stereo_init", transaction_frame(CMD_STEREO_CAMERA_INIT),
                     TransactionOutcomes, maxFaults, "macos_stereo_start", dev)

\* hid.stereo_camera_start()
macos_stereo_start(maxFaults) ==
    macos_retry_loop("macos_stereo_start", transaction_frame(CMD_STEREO_CAMERA_START),
                     TransactionOutcomes, maxFaults, "macos_edge_stream", dev)

\* hid.edge_stream_with_params(if edge {1} else {0}, rotation_enabled, false);
\* on Ok: self.hid.take(), self.api.take()
macos_edge_stream(maxFaults) ==
    macos_retry_loop("macos_edge_stream",
                     edge_stream_with_params_frame(
                         Bit(edge), read_env_bool("XVISIO_ROTATION_ENABLED", TRUE), FALSE),
                     WriteOutcomes, maxFaults, "macos_spawn", NoHandles)

\* SlamStream::start_hidapi(hid.into_device(), api)
macos_spawn(maxFaults) ==
    /\ ss.pc = "macos_spawn"
    /\ \E o \in {"ok", "spawn_failed"} :
         /\ MayFail(o, maxFaults)
         /\ IF o = "ok"
            THEN /\ ss' = [ss EXCEPT !.pc = "done", !.result = "Ok",
                                     !.wire = Append(@, Ev("spawn", <<>>, TRUE))]
                 /\ StreamStarts("hidapi")
            ELSE /\ Return("HidCommand",
                           Append(ss.wire, Ev("spawn", <<>>, FALSE)), Charged(o))
                 /\ UNCHANGED svars
    /\ UNCHANGED ovars
    /\ UNCHANGED <<platform, env, dev, calls, cmdResult>>

(***************************************************************************)
(* device.rs: send_hid_command_rusb                                        *)
(***************************************************************************)
ControlOutcomes == {"ok", "write_failed"}

\* write_control(0x21, 0x09, 0x0202, HID_INTERFACE, cmd)
ControlWrote(frame, o) == Ev("control_write", frame, o = "ok")

\* what read_control(0xA1, 0x01, 0x0101, HID_INTERFACE, &mut response) may
\* give: an error, or a length and the buffer, zero beyond the length
AckLens(expected_echo) == {0, Len(expected_echo), 1 + Len(expected_echo), REPORT_SIZE}

AckBytes(expected_echo) ==
    {<<p>> \o e \o Zeros(REPORT_SIZE - 1 - Len(e)) :
        p \in {PREFIX_DEVICE_TO_HOST, PREFIX_HOST_TO_DEVICE},
        e \in {expected_echo, [expected_echo EXCEPT ![1] = 0]}}

Acks(expected_echo) ==
    {[kind |-> "Err", len |-> 0, response |-> Zeros(REPORT_SIZE)]}
    \cup {[kind |-> "Ok", len |-> n,
           response |-> SubSeq(b, 1, n) \o Zeros(REPORT_SIZE - n)] :
             n \in AckLens(expected_echo), b \in AckBytes(expected_echo)}

\* the warning send_hid_command_rusb logs about the acknowledgement
ack_warning(ack, expected_echo) ==
    IF ack.kind = "Err"
    THEN "ack_read_failed"
    ELSE IF ack.len < 1 + Len(expected_echo)
         THEN "ack_too_short"
         ELSE IF \/ ack.response[1] # PREFIX_DEVICE_TO_HOST
                 \/ SubSeq(ack.response, 2, 1 + Len(expected_echo)) # expected_echo
              THEN "ack_mismatch"
              ELSE "none"

\* an acknowledgement that is not the expected one makes the send fail
send_hid_command_rusb_strict(o, ack, expected_echo) ==
    IF o # "ok"
    THEN [result |-> "HidCommand", warning |-> "none"]
    ELSE [result |-> IF ack_warning(ack, expected_echo) = "none"
                     THEN "Ok" ELSE "CommandMismatch",
          warning |-> ack_warning(ack, expected_echo)]

\* the result of the send and the warning logged
send_hid_command_rusb(o, ack, expected_echo) ==
    IF o # "ok"
    THEN [result |-> "HidCommand", warning |-> "none"]
    ELSE [result |-> "Ok", warning |-> ack_warning(ack, expected_echo)]

\* what the send did on the transport and logged
SendEvents(frame, o, warning) ==
    IF warning = "none"
    THEN <<ControlWrote(frame, o)>>
    ELSE <<ControlWrote(frame, o), Ev(warning, <<>>, FALSE)>>

\* a write that failed, or an acknowledgement that was not the expected one
SendFault(o, warning) == IF o = "ok" /\ warning = "none" THEN "ok" ELSE "fault"

(***************************************************************************)
(* device.rs: open_rusb_handle_no_detach                                   *)
(***************************************************************************)
\* a loop that makes one attempt more
open_attempts_done_late(attempt, attempts) == attempt > attempts + 1

\* `for attempt in 1..=attempts` has run out
open_attempts_done(attempt, attempts) == attempt > attempts

IFACES_HID == <<HID_INTERFACE>>

IFACES_ALL == <<HID_INTERFACE, 1, 2, 0>>

interface_sets(claim_all_interfaces) ==
    IF claim_all_interfaces THEN <<IFACES_ALL>> ELSE <<IFACES_HID, IFACES_ALL>>

claim_all_interfaces == read_env_bool("XVISIO_CLAIM_ALL_INTERFACES", FALSE)

allow_detach_fallback == read_env_bool("XVISIO_ALLOW_DETACH_FALLBACK", TRUE)

\* the handle of this interface set did not claim: next set, or next attempt
NextInterfaceSet(rec) ==
    IF rec.sub.set < Len(interface_sets(claim_all_interfaces))
    THEN [rec EXCEPT !.pc = "rusb_open", !.sub.set = @ + 1, !.sub.i = 0]
    ELSE [rec EXCEPT !.pc = "rusb_enum", !.sub.n = @ + 1, !.sub.set = 0, !.sub.i = 0]

\* one turn of `for attempt in 1..=20`: rusb::devices() and the search in it
\* (the device may stay away from the bus longer than other calls may fail)
rusb_enum(maxFaults, maxNotFound) ==
    /\ ss.pc = "rusb_enum"
    /\ IF open_attempts_done(ss.sub.n, OPEN_NO_DETACH_ATTEMPTS)
       THEN Return("HidCommand", ss.wire, ss.faults)
       ELSE \E o \in {"ok", "enumerate_failed", "not_found"} :
              /\ MayFail(o, IF o = "not_found" THEN maxNotFound ELSE maxFaults)
              /\ CASE o = "ok" ->
                        ss' = [ss EXCEPT !.pc = "rusb_open", !.sub.set = 1]
                   [] o = "enumerate_failed" ->
                        Return("HidCommand", ss.wire, Charged(o))
                   [] OTHER ->
                        ss' = [ss EXCEPT !.sub.n = @ + 1, !.faults = Charged(o)]
    /\ UNCHANGED ovars
    /\ UNCHANGED <<platform, env, dev, calls, cmdResult>>
    /\ UNCHANGED svars

\* usb_device.open() for the current interface set
rusb_open(maxFaults) ==
    /\ ss.pc = "rusb_open"
    /\ \E o \in {"ok", "open_failed"} :
         /\ MayFail(o, maxFaults)
         /\ LET rec == [ss EXCEPT !.wire = Append(@, Ev("usb_open", <<>>, o = "ok")),
                                  !.faults = Charged(o)]
            IN  ss' = IF o = "ok"
                      THEN [rec EXCEPT !.pc = "rusb_claim", !.sub.i = 1]
                      ELSE NextInterfaceSet(rec)
    /\ UNCHANGED ovars
    /\ UNCHANGED <<platform, env, dev, calls, cmdResult>>
    /\ UNCHANGED svars

\* every interface of the set is claimed: the handle is returned
Claimed(rec) ==
    IF rec.sub.i < Len(interface_sets(claim_all_interfaces)[rec.sub.set])
    THEN [rec EXCEPT !.pc = "rusb_claim", !.sub.i = @ + 1]
    ELSE [rec EXCEPT !.pc = rec.sub.ret, !.usb = TRUE, !.sub = NoSub]

\* a fallback taken on every error of the claim
detach_fallback_on_any_error(o, iface) ==
    o # "ok" /\ iface = HID_INTERFACE /\ allow_detach_fallback

\* the arm `Err(rusb::Error::Access) if iface == HID_INTERFACE &&
\* allow_detach_fallback` of the match on the claim
detach_fallback_applies(o, iface) ==
    o = "access" /\ iface = HID_INTERFACE /\ allow_detach_fallback

\* handle.claim_interface(iface)
rusb_claim(maxFaults) ==
    /\ ss.pc = "rusb_claim"
    /\ \E o \in {"ok", "access", "other"} :
         /\ MayFail(o, maxFaults)
         /\ LET iface == interface_sets(claim_all_interfaces)[ss.sub.set][ss.sub.i]
                rec == [ss EXCEPT !.wire = Append(@, IF o = "ok"
                                                       THEN Ev("claim", <<iface>>, TRUE)
                                                       ELSE ErrEv("claim", <<iface>>, o)),
                                  !.faults = Charged(o)]
            IN  ss' = CASE o = "ok" -> Claimed(rec)
                        [] detach_fallback_applies(o, iface) ->
                             [rec EXCEPT !.pc = "rusb_detach_fallback"]
                        [] OTHER -> NextInterfaceSet(rec)
    /\ UNCHANGED ovars
    /\ UNCHANGED <<platform, env, dev, calls, cmdResult>>
    /\ UNCHANGED svars

\* handle.detach_kernel_driver(iface), whose result is only logged, and the
\* second handle.claim_interface(iface)
rusb_detach_fallback(maxFaults) ==
    /\ ss.pc = "rusb_detach_fallback"
    /\ \E o \in {"ok", "claim_failed"} :
         /\ MayFail(o, maxFaults)
         /\ LET iface == interface_sets(claim_all_interfaces)[ss.sub.set][ss.sub.i]
                rec == [ss EXCEPT !.wire = @ \o <<Ev("detach", <<iface>>, TRUE),
                                                  Ev("claim", <<iface>>, o = "ok")>>,
                                  !.faults = Charged(o)]
            IN  ss' = IF o = "ok" THEN Claimed(rec) ELSE NextInterfaceSet(rec)
    /\ UNCHANGED ovars
    /\ UNCHANGED <<platform, env, dev, calls, cmdResult>>
    /\ UNCHANGED svars

(***************************************************************************)
(* device.rs: start_slam_rusb, the precondition cycles                     *)
(***************************************************************************)
precondition_cycles == read_env_u8("XVISIO_PRECONDITION_CYCLES", 0)

\* a loop that runs one cycle more than asked for
NextCycle_one_more(rec) ==
    IF rec.cycle <= precondition_cycles
    THEN [rec EXCEPT !.pc = "rusb_pre_open", !.cycle = @ + 1, !.usb = FALSE,
                     !.sub = [NoSub EXCEPT !.n = 1]]
    ELSE EnterMain(rec)

\* the end of a cycle: the next one, or the main sequence
NextCycle(rec) ==
    IF rec.cycle < precondition_cycles
    THEN [rec EXCEPT !.pc = "rusb_pre_open", !.cycle = @ + 1, !.usb = FALSE,
                     !.sub = [NoSub EXCEPT !.n = 1]]
    ELSE EnterMain(rec)

\* open_rusb_handle_with_detach returned Err(e): "Precondition cycle {} failed:
\* {} (continuing)"
CycleFailed(rec, e) ==
    [rec EXCEPT !.wire = Append(@, ErrEv("precondition_cycle_failed", <<>>, e))]

\* open_rusb_handle_with_detach: one turn of `for attempt in 1..=10`
\* (enumerate, open, detach, claim interface 3)
open_rusb_handle_with_detach(maxFaults, maxNotFound) ==
    /\ ss.pc = "rusb_pre_open"
    /\ IF open_attempts_done(ss.sub.n, OPEN_WITH_DETACH_ATTEMPTS)
       THEN ss' = NextCycle(CycleFailed(ss, "HidCommand"))
       ELSE \E o \in {"ok", "enumerate_failed", "not_found", "open_failed",
                      "claim_failed"} :
              /\ MayFail(o, IF o = "not_found" THEN maxNotFound ELSE maxFaults)
              /\ LET opened == Append(ss.wire, Ev("usb_open", <<>>, o # "open_failed"))
                     tried == opened \o <<Ev("detach", <<HID_INTERFACE>>, TRUE),
                                          Ev("claim", <<HID_INTERFACE>>, o = "ok")>>
                     rec == [ss EXCEPT !.faults = Charged(o)]
                 IN  ss' = CASE o = "ok" ->
                                  [rec EXCEPT !.pc = "rusb_pre_configure", !.usb = TRUE,
                                              !.wire = tried, !.sub = NoSub]
                             [] o = "enumerate_failed" ->
                                  NextCycle(CycleFailed(rec, "HidCommand"))
                             [] o = "not_found" -> [rec EXCEPT !.sub.n = @ + 1]
                             [] o = "open_failed" ->
                                  [rec EXCEPT !.sub.n = @ + 1, !.wire = opened]
                             [] OTHER -> [rec EXCEPT !.sub.n = @ + 1, !.wire = tried]
    /\ UNCHANGED ovars
    /\ UNCHANGED <<platform, env, dev, calls, cmdResult>>
    /\ UNCHANGED svars

rusb_configure_frame ==
    build_configure_cmd_with_uvc(edge, read_env_u8("XVISIO_UVC_MODE", 0), embedded_algo)

rusb_edge_stream_frame ==
    build_edge_stream_cmd_with_params(
        Bit(edge), read_env_bool("XVISIO_ROTATION_ENABLED", TRUE), FALSE)

\* a command whose result start_slam_rusb ignores or only logs
rusb_command_ignored(here, frame, expected_echo, maxFaults, next) ==
    /\ ss.pc = here
    /\ \E o \in ControlOutcomes, ack \in Acks(expected_echo) :
         LET sent == send_hid_command_rusb(o, ack, expected_echo)
             fault == SendFault(o, sent.warning)
         IN  /\ MayFail(fault, maxFaults)
             /\ ss' = [ss EXCEPT !.pc = next, !.faults = Charged(fault),
                                 !.wire = @ \o SendEvents(frame, o, sent.warning)]
    /\ UNCHANGED ovars
    /\ UNCHANGED <<platform, env, dev, calls, cmdResult>>
    /\ UNCHANGED svars

rusb_pre_configure(maxFaults) ==
    rusb_command_ignored("rusb_pre_configure", rusb_configure_frame, CMD_CONFIGURE, maxFaults,
                         "rusb_pre_edge_stream")

rusb_pre_edge_stream(maxFaults) ==
    rusb_command_ignored("rusb_pre_edge_stream", rusb_edge_stream_frame, CMD_EDGE_STREAM,
                         maxFaults,
                         "rusb_pre_release")

\* handle.release_interface(HID_INTERFACE) and the drop of the handle
rusb_pre_release ==
    /\ ss.pc = "rusb_pre_release"
    /\ ss' = NextCycle([ss EXCEPT !.wire = Append(@, Ev("release", <<HID_INTERFACE>>, TRUE))])
    /\ UNCHANGED ovars
    /\ UNCHANGED <<platform, env, dev, calls, cmdResult>>
    /\ UNCHANGED svars

(***************************************************************************)
(* device.rs: start_slam_rusb, the main sequence                           *)
(***************************************************************************)
rusb_after_configure ==
    IF read_env_bool("XVISIO_ENABLE_STEREO_INIT", FALSE)
    THEN "rusb_stereo_init"
    ELSE "rusb_edge_stream"

\* the failure of the command is logged and startup goes on
rusb_command_tolerant(here, frame, expected_echo, maxFaults, reopen, next) ==
    rusb_command_ignored(here, frame, expected_echo, maxFaults, next)

\* a command whose failure start_slam_rusb returns, followed by a re-open of
\* the handle if `reopen` says so
rusb_command(here, frame, expected_echo, maxFaults, reopen, next) ==
    /\ ss.pc = here
    /\ \E o \in ControlOutcomes, ack \in Acks(expected_echo) :
         LET sent == send_hid_command_rusb(o, ack, expected_echo)
             fault == SendFault(o, sent.warning)
             rec == [ss EXCEPT !.wire = @ \o SendEvents(frame, o, sent.warning),
                               !.faults = Charged(fault)]
         IN  /\ MayFail(fault, maxFaults)
             /\ CASE sent.result # "Ok" -> Return(sent.result, rec.wire, rec.faults)
                   [] sent.result = "Ok" /\ reopen -> ss' = EnterOpenNoDetach(rec, next)
                   [] OTHER -> ss' = [rec EXCEPT !.pc = next]
    /\ UNCHANGED ovars
    /\ UNCHANGED <<platform, env, dev, calls, cmdResult>>
    /\ UNCHANGED svars

rusb_configure(maxFaults) ==
    rusb_command("rusb_configure", rusb_configure_frame, CMD_CONFIGURE, maxFaults,
                 read_env_bool("XVISIO_REOPEN_AFTER_CONFIG", TRUE), rusb_after_configure)

rusb_stereo_init(maxFaults) ==
    rusb_command_ignored("rusb_stereo_init", build_stereo_camera_init_cmd,
                         CMD_STEREO_CAMERA_INIT, maxFaults,
                         "rusb_stereo_start")

rusb_stereo_start(maxFaults) ==
    rusb_command_ignored("rusb_stereo_start", build_stereo_camera_start_cmd,
                         CMD_STEREO_CAMERA_START, maxFaults,
                         "rusb_edge_stream")

rusb_edge_stream(maxFaults) ==
    rusb_command("rusb_edge_stream", rusb_edge_stream_frame, CMD_EDGE_STREAM, maxFaults,
                 read_env_bool("XVISIO_REOPEN_AFTER_EDGE_START", FALSE), "rusb_spawn")

\* SlamStream::start_rusb(handle)
rusb_spawn(maxFaults) ==
    /\ ss.pc = "rusb_spawn"
    /\ \E o \in {"ok", "spawn_failed"} :
         /\ MayFail(o, maxFaults)
         /\ IF o = "ok"
            THEN /\ ss' = [ss EXCEPT !.pc = "done", !.result = "Ok", !.usb = FALSE,
                                     !.wire = Append(@, Ev("spawn", <<>>, TRUE))]
                 /\ StreamStarts("rusb")
            ELSE /\ Return("HidCommand",
                           Append(ss.wire, Ev("spawn", <<>>, FALSE)), Charged(o))
                 /\ UNCHANGED svars
    /\ UNCHANGED ovars
    /\ UNCHANGED <<platform, env, dev, calls, cmdResult>>

(***************************************************************************)
(* protocol.rs: validate_response                                          *)
(***************************************************************************)
Err(e, b) == [ok |-> FALSE, err |-> e, byte |-> b, val |-> 0]

Ok(v) == [ok |-> TRUE, err |-> "none", byte |-> 0, val |-> v]

\* the echo is looked for where the prefix is
echo_differs_from_prefix(response, expected_cmd) ==
    SubSeq(response, 1, Len(expected_cmd)) # expected_cmd

\* &response[1..1 + cmd_len] != expected_cmd
echo_differs(response, expected_cmd) ==
    SubSeq(response, 2, 1 + Len(expected_cmd)) # expected_cmd

\* the echo is compared before the prefix
validate_response_echo_first(response, expected_cmd) ==
    LET cmd_len == Len(expected_cmd)
    IN  IF Len(response) < 1 + cmd_len
        THEN Err("CommandMismatch", 0)
        ELSE IF echo_differs(response, expected_cmd)
             THEN Err("CommandMismatch", 0)
             ELSE IF response = <<>> \/ response[1] # PREFIX_DEVICE_TO_HOST
                  THEN Err("InvalidResponse", IF response = <<>> THEN 0 ELSE response[1])
                  ELSE Ok(1 + cmd_len)

validate_response(response, expected_cmd) ==
    IF response = <<>> \/ response[1] # PREFIX_DEVICE_TO_HOST
    THEN Err("InvalidResponse", IF response = <<>> THEN 0 ELSE response[1])
    ELSE LET cmd_len == Len(expected_cmd)
         IN  IF Len(response) < 1 + cmd_len
             THEN Err("CommandMismatch", 0)
             ELSE IF echo_differs(response, expected_cmd)
                  THEN Err("CommandMismatch", 0)
                  ELSE Ok(1 + cmd_len)

(***************************************************************************)
(* hid.rs: HidTransport::transaction and the identity queries              *)
(***************************************************************************)
\* what the device may answer to cmd: nothing, the echo, a wrong prefix, a
\* wrong echo, a truncated echo
Responses(cmd) ==
    {<<>>,
     <<PREFIX_DEVICE_TO_HOST>> \o cmd,
     <<PREFIX_HOST_TO_DEVICE>> \o cmd,
     <<PREFIX_DEVICE_TO_HOST>> \o [cmd EXCEPT ![1] = 0],
     <<PREFIX_DEVICE_TO_HOST>> \o SubSeq(cmd, 1, Len(cmd) - 1)}

\* the write and the get_input_report of one transaction
TransactionIO(cmd) ==
    {[kind |-> k, response |-> <<>>] : k \in {"write_failed", "read_failed"}}
    \cup {[kind |-> "ok", response |-> r] : r \in Responses(cmd)}

\* HidTransport::transaction: the response, or the error
transaction(io) ==
    IF io.kind # "ok"
    THEN Err("HidCommand", 0)
    ELSE IF io.response = <<>> \/ io.response[1] # PREFIX_DEVICE_TO_HOST
         THEN Err("InvalidResponse", IF io.response = <<>> THEN 0 ELSE io.response[1])
         ELSE Ok(io.response)

\* the query trusts the response without looking at the echo
read_identity_unchecked(cmd, io) ==
    IF transaction(io).ok THEN Ok(1 + Len(cmd)) ELSE transaction(io)

\* read_uuid, read_version, read_features: transaction(cmd)?, then
\* validate_response(&response, cmd)?; the payload always decodes
read_identity(cmd, io) ==
    IF transaction(io).ok
    THEN validate_response(transaction(io).val, cmd)
    ELSE transaction(io)

\* read_uuid, read_version, read_features in the order they are called
IdentityCommands == <<CMD_UUID, CMD_VERSION, CMD_FEATURES>>

(***************************************************************************)
(* device.rs: list_devices, query_device_info, open_first, open            *)
(***************************************************************************)
\* hidapi::DeviceInfo: what api.device_list() may hold
HidInfos ==
    {[vendor_id |-> VID, product_id |-> PID, interface_number |-> HID_INTERFACE],
     [vendor_id |-> VID, product_id |-> PID, interface_number |-> -1],
     [vendor_id |-> VID, product_id |-> PID, interface_number |-> 0],
     [vendor_id |-> VID, product_id |-> PID + 1, interface_number |-> HID_INTERFACE],
     [vendor_id |-> VID + 1, product_id |-> PID, interface_number |-> HID_INTERFACE]}

\* the path of a device is its place in the enumeration
DeviceLists(maxDevices) ==
    UNION {[1..n -> HidInfos] : n \in 0..maxDevices}

is_xr50_hid(d) ==
    /\ d.vendor_id = VID
    /\ d.product_id = PID
    /\ (d.interface_number = HID_INTERFACE \/ d.interface_number = -1)

\* api.device_list().find(..): the first of the devices the closure holds of,
\* 0 if there is none
find(matches) ==
    IF matches = {}
    THEN 0
    ELSE CHOOSE i \in matches : \A j \in matches : i <= j

NoCall ==
    [fn |-> "none", pc |-> "idle", list |-> <<>>, i |-> 0, q |-> 0, bus_id |-> 0,
     visited |-> {}, sent |-> <<>>, out |-> <<>>, result |-> "none"]

\* a call may start when none is running; the Device of an earlier call has
\* been dropped
MayCall == opening.pc \in {"idle", "done"}

\* a new call enumerates the devices that are attached
Call(fn) == [NoCall EXCEPT !.fn = fn, !.list = opening.list]

\* create_hid_api()? at the head of the three functions
ApiOutcomes == {"ok", "api_failed"}

\* pub fn list_devices()
list_devices ==
    /\ MayCall
    /\ \E o \in ApiOutcomes :
         opening' = IF o = "ok"
                    THEN [Call("list_devices") EXCEPT !.pc = "loop", !.i = 1]
                    ELSE [Call("list_devices") EXCEPT !.pc = "done", !.result = "Hid"]
    /\ dev' = [hid |-> FALSE, api |-> FALSE]
    /\ UNCHANGED <<platform, env, ss, calls, cmdResult, codec>>
    /\ UNCHANGED svars

\* `for dev_info in api.device_list()`: the end of the list, a device that is
\* skipped, or the call of query_device_info
list_devices_loop ==
    /\ opening.pc = "loop"
    /\ opening' = IF opening.i > Len(opening.list)
             THEN [opening EXCEPT !.pc = "done", !.result = "Ok"]
             ELSE IF ~is_xr50_hid(opening.list[opening.i])
                  THEN [opening EXCEPT !.i = @ + 1]
                  ELSE [opening EXCEPT !.pc = "open_path", !.visited = @ \cup {opening.i}]
    /\ UNCHANGED <<codec, dvars, svars>>

\* list_devices gives up at the first device that cannot be queried
QueryFailed_aborting(rec, e) ==
    [rec EXCEPT !.pc = "done", !.result = e]

\* an error of query_device_info is logged by list_devices and returned by
\* open_first and open
QueryFailed(rec, e) ==
    IF rec.fn = "list_devices"
    THEN [rec EXCEPT !.pc = "loop", !.i = @ + 1]
    ELSE [rec EXCEPT !.pc = "done", !.result = e]

\* Ok(DeviceInfo) is pushed by list_devices; open_first and open return the Device
QuerySucceeded(rec) ==
    IF rec.fn = "list_devices"
    THEN [rec EXCEPT !.pc = "loop", !.i = @ + 1, !.out = Append(@, rec.i)]
    ELSE [rec EXCEPT !.pc = "done", !.result = "Ok", !.out = <<rec.i>>]

\* api.open_path(path)?
open_path ==
    /\ opening.pc = "open_path"
    /\ \E o \in {"ok", "open_failed"} :
         opening' = IF o = "ok"
               THEN [opening EXCEPT !.pc = "query", !.q = 1]
               ELSE QueryFailed(opening, "Hid")
    /\ UNCHANGED <<codec, dvars, svars>>

\* hid.read_uuid()?, hid.read_version()?, hid.read_features()?
read_identity_query ==
    /\ opening.pc = "query"
    /\ \E io \in TransactionIO(IdentityCommands[opening.q]) :
         LET cmd == IdentityCommands[opening.q]
             read == read_identity(cmd, io)
             rec == [opening EXCEPT
                        !.sent = Append(@, [dev |-> opening.i, cmd |-> cmd, io |-> io])]
         IN  /\ opening' = IF ~read.ok
                      THEN QueryFailed(rec, read.err)
                      ELSE IF opening.q < Len(IdentityCommands)
                           THEN [rec EXCEPT !.q = @ + 1]
                           ELSE QuerySucceeded(rec)
             /\ dev' = IF opening'.pc = "done" /\ opening'.result = "Ok"
                       THEN [hid |-> TRUE, api |-> TRUE]
                       ELSE dev
    /\ UNCHANGED <<platform, env, ss, calls, cmdResult, codec>>
    /\ UNCHANGED svars

\* the device open_first or open has found, or DeviceNotFound
Found(rec, i) ==
    IF i = 0
    THEN [rec EXCEPT !.pc = "done", !.result = "DeviceNotFound"]
    ELSE [rec EXCEPT !.pc = "open_path", !.i = i, !.visited = {i}]

\* pub fn open_first()
open_first ==
    /\ MayCall
    /\ \E o \in ApiOutcomes :
         LET rec == Call("open_first")
         IN  opening' = IF o = "ok"
                        THEN Found(rec, find({i \in 1..Len(rec.list) :
                                                  is_xr50_hid(rec.list[i])}))
                        ELSE [rec EXCEPT !.pc = "done", !.result = "Hid"]
    /\ dev' = [hid |-> FALSE, api |-> FALSE]
    /\ UNCHANGED <<platform, env, ss, calls, cmdResult, codec>>
    /\ UNCHANGED svars

\* pub fn open(info): info.bus_id is the path of a device listed earlier
open(maxDevices) ==
    /\ MayCall
    /\ \E o \in ApiOutcomes, bus_id \in 1..maxDevices :
         LET rec == [Call("open") EXCEPT !.bus_id = bus_id]
         IN  opening' = IF o = "ok"
                        THEN Found(rec, find({i \in 1..Len(rec.list) :
                                                  is_xr50_hid(rec.list[i]) /\ i = bus_id}))
                        ELSE [rec EXCEPT !.pc = "done", !.result = "Hid"]
    /\ dev' = [hid |-> FALSE, api |-> FALSE]
    /\ UNCHANGED <<platform, env, ss, calls, cmdResult, codec>>
    /\ UNCHANGED svars

\* open_first on one XR50 whose three queries were answered
Opened ==
    [NoCall EXCEPT
        !.fn = "open_first", !.pc = "done", !.result = "Ok", !.i = 1, !.q = 3,
        !.out = <<1>>, !.visited = {1},
        !.list = <<[vendor_id |-> VID, product_id |-> PID,
                    interface_number |-> HID_INTERFACE]>>,
        !.sent = [q \in 1..3 |->
                    [dev |-> 1, cmd |-> IdentityCommands[q],
                     io |-> [kind |-> "ok",
                             response |-> <<PREFIX_DEVICE_TO_HOST>> \o IdentityCommands[q]]]]]

\* no function of protocol.rs has been called
NoCodec == [fn |-> "none", response |-> <<>>, cmd |-> <<>>, returned |-> <<>>]

(***************************************************************************)
(* protocol.rs: calls of build_command and validate_response               *)
(***************************************************************************)
\* the prefixes, zero and an opcode byte
Bytes == {0, PREFIX_DEVICE_TO_HOST, PREFIX_HOST_TO_DEVICE, CMD_UUID[1]}

ByteStrings(maxLen) == UNION {[1..n -> Bytes] : n \in 0..maxLen}

\* n bytes, none of them zero
Ramp(n) == [i \in 1..n |-> 1 + (i % 255)]

\* opcode-plus-parameter strings: the short ones, and those that fill the
\* report or are longer than it
Commands(maxCmdLen, maxOver) ==
    ByteStrings(maxCmdLen)
    \cup {Ramp(n) : n \in (REPORT_SIZE - 1 - maxOver)..(REPORT_SIZE - 1 + maxOver)}

\* build_command(cmd) as the device echoes it: the prefix 0x01 in byte 0
echoed(cmd) == [build_command(cmd) EXCEPT ![1] = PREFIX_DEVICE_TO_HOST]

\* validate_response(&codec.response, &codec.cmd)
call_validate_response ==
    /\ codec' = [codec EXCEPT !.fn = "validate_response",
                              !.returned = validate_response(codec.response, codec.cmd)]
    /\ UNCHANGED <<opening, dvars, svars>>

\* build_command(&codec.cmd)
call_build_command ==
    /\ codec' = [codec EXCEPT !.fn = "build_command",
                              !.returned = build_command(codec.cmd)]
    /\ UNCHANGED <<opening, dvars, svars>>

\* validate_response of the echo of build_command(&codec.cmd)
call_round_trip ==
    /\ codec' = [codec EXCEPT !.fn = "round_trip",
                              !.returned = validate_response(echoed(codec.cmd), codec.cmd)]
    /\ UNCHANGED <<opening, dvars, svars>>

(***************************************************************************)
(* Device::start_slam and Device::hid_command                              *)
(***************************************************************************)
NoStream ==
    /\ backend = "none"
    /\ stop_flag = FALSE
    /\ queue = <<>>
    /\ rpc = "none"
    /\ consecutive_errors = 0
    /\ parsed = 0
    /\ drops = 0
    /\ lastReadGone = FALSE
    /\ hpc = "none"
    /\ delivered = <<>>
    /\ lastRecv = [op |-> "none", result |-> "none"]

\* an opened Device (Device::open) that has not started SLAM
InitStart ==
    /\ NoStream
    /\ platform \in {"macos", "other"}
    /\ env \in IF platform = "macos" THEN Envs(MaxEnvSet) ELSE {NoEnv}
    /\ dev = BothHandles
    /\ ss = Idle
    /\ calls = 0
    /\ cmdResult = "none"
    /\ opening = Opened
    /\ codec = NoCodec

NextStart ==
    \/ start_slam(MaxStarts)
    \/ hid_command
    \/ hidapi_configure(MaxFaults)
    \/ hidapi_edge_stream(MaxFaults)
    \/ hidapi_open_path(MaxFaults)
    \/ hidapi_spawn(MaxFaults)
    \/ macos_configure(MaxFaults)
    \/ reopen_hid_handle(MaxFaults)
    \/ macos_stereo_init(MaxFaults)
    \/ macos_stereo_start(MaxFaults)
    \/ macos_edge_stream(MaxFaults)
    \/ macos_spawn(MaxFaults)
    \/ open_rusb_handle_with_detach(MaxFaults, MaxFaults)
    \/ rusb_pre_configure(MaxFaults)
    \/ rusb_pre_edge_stream(MaxFaults)
    \/ rusb_pre_release
    \/ rusb_enum(MaxFaults, MaxFaults)
    \/ rusb_open(MaxFaults)
    \/ rusb_claim(MaxFaults)
    \/ rusb_detach_fallback(MaxFaults)
    \/ rusb_configure(MaxFaults)
    \/ rusb_stereo_init(MaxFaults)
    \/ rusb_stereo_start(MaxFaults)
    \/ rusb_edge_stream(MaxFaults)
    \/ rusb_spawn(MaxFaults)

SpecStart == InitStart /\ [][NextStart]_vars

(***************************************************************************)
(* start_slam_hidapi_macos with an edge-stream write that keeps failing    *)
(***************************************************************************)
\* XVISIO_MAC_BACKEND=hidapi and nothing else
RetryEnv == [NoEnv EXCEPT !["XVISIO_MAC_BACKEND"] = Set("hidapi")]

InitRetry ==
    /\ NoStream
    /\ platform = "macos"
    /\ env = RetryEnv
    /\ dev = BothHandles
    /\ ss = Idle
    /\ calls = 0
    /\ cmdResult = "none"
    /\ opening = Opened
    /\ codec = NoCodec

\* only the edge-stream write fails
NextRetry ==
    \/ start_slam(MaxStarts)
    \/ hid_command
    \/ macos_configure(0)
    \/ reopen_hid_handle(0)
    \/ macos_edge_stream(MaxRetryFaults)
    \/ macos_spawn(0)

SpecRetry == InitRetry /\ [][NextRetry]_vars

(***************************************************************************)
(* start_slam_rusb with a device that stays away from the bus              *)
(***************************************************************************)
\* XVISIO_PRECONDITION_CYCLES=1 and nothing else
UsbOpenEnv == [NoEnv EXCEPT !["XVISIO_PRECONDITION_CYCLES"] = Set(1)]

InitUsbOpen ==
    /\ NoStream
    /\ platform = "macos"
    /\ env = UsbOpenEnv
    /\ dev = BothHandles
    /\ ss = Idle
    /\ calls = 0
    /\ cmdResult = "none"
    /\ opening = Opened
    /\ codec = NoCodec

\* the commands and the start of the reader thread do not fail
NextUsbOpen ==
    \/ start_slam(MaxUsbStarts)
    \/ open_rusb_handle_with_detach(MaxUsbFaults, MaxNotFound)
    \/ rusb_pre_configure(0)
    \/ rusb_pre_edge_stream(0)
    \/ rusb_pre_release
    \/ rusb_enum(MaxUsbFaults, MaxNotFound)
    \/ rusb_open(MaxUsbFaults)
    \/ rusb_claim(MaxUsbFaults)
    \/ rusb_detach_fallback(MaxUsbFaults)
    \/ rusb_configure(0)
    \/ rusb_edge_stream(0)
    \/ rusb_spawn(0)

\* start_slam runs on: every call of it that can go on does
SpecUsbOpen == InitUsbOpen /\ [][NextUsbOpen]_vars /\ WF_vars(NextUsbOpen)

(***************************************************************************)
(* start_slam_rusb with its precondition cycles and its main sequence      *)
(***************************************************************************)
\* the variables start_slam_rusb reads for its cycles, its opens and its reopen
RawUsbNames ==
    {"XVISIO_CLAIM_ALL_INTERFACES", "XVISIO_PRECONDITION_CYCLES",
     "XVISIO_REOPEN_AFTER_EDGE_START", "XVISIO_ALLOW_DETACH_FALLBACK"}

RawUsbEnvs == {e \in EnvSpace : \A n \in EnvNames \ RawUsbNames : ~e[n].set}

InitRawUsb ==
    /\ NoStream
    /\ platform = "macos"
    /\ env \in RawUsbEnvs
    /\ dev = BothHandles
    /\ ss = Idle
    /\ calls = 0
    /\ cmdResult = "none"
    /\ opening = Opened
    /\ codec = NoCodec

NextRawUsb ==
    \/ start_slam(MaxRawStarts)
    \/ open_rusb_handle_with_detach(MaxRawFaults, MaxRawFaults)
    \/ rusb_pre_configure(MaxRawFaults)
    \/ rusb_pre_edge_stream(MaxRawFaults)
    \/ rusb_pre_release
    \/ rusb_enum(MaxRawFaults, MaxRawFaults)
    \/ rusb_open(MaxRawFaults)
    \/ rusb_claim(MaxRawFaults)
    \/ rusb_detach_fallback(MaxRawFaults)
    \/ rusb_configure(MaxRawFaults)
    \/ rusb_edge_stream(MaxRawFaults)
    \/ rusb_spawn(MaxRawFaults)

SpecRawUsb == InitRawUsb /\ [][NextRawUsb]_vars

(***************************************************************************)
(* start_slam_hidapi_macos with commands and re-opens that fail            *)
(***************************************************************************)
ReconnectEnvs ==
    {RetryEnv, [RetryEnv EXCEPT !["XVISIO_ENABLE_STEREO_INIT"] = Set(TRUE)]}

InitReconnect ==
    /\ NoStream
    /\ platform = "macos"
    /\ env \in ReconnectEnvs
    /\ dev = BothHandles
    /\ ss = Idle
    /\ calls = 0
    /\ cmdResult = "none"
    /\ opening = Opened
    /\ codec = NoCodec

\* the configure write and the start of the reader thread do not fail
NextReconnect ==
    \/ start_slam(MaxReconnectStarts)
    \/ macos_configure(0)
    \/ reopen_hid_handle(MaxReconnectFaults)
    \/ macos_stereo_init(MaxReconnectFaults)
    \/ macos_stereo_start(MaxReconnectFaults)
    \/ macos_edge_stream(MaxReconnectFaults)
    \/ macos_spawn(0)

SpecReconnect == InitReconnect /\ [][NextReconnect]_vars

(***************************************************************************)
(* Device::open_first, Device::open and list_devices                       *)
(***************************************************************************)
\* some devices are attached and none has been opened
InitOpen ==
    /\ NoStream
    /\ platform = "other"
    /\ env = NoEnv
    /\ dev = NoHandles
    /\ ss = Idle
    /\ calls = 0
    /\ cmdResult = "none"
    /\ opening \in {[NoCall EXCEPT !.list = list] : list \in DeviceLists(MaxDevices)}
    /\ codec = NoCodec

NextOpen ==
    \/ list_devices
    \/ open_first
    \/ open(MaxDevices)
    \/ list_devices_loop
    \/ open_path
    \/ read_identity_query

SpecOpen == InitOpen /\ [][NextOpen]_vars

(***************************************************************************)
(* protocol.rs: the pose decoder.  An f64 that the decoder obtains as an   *)
(* integer times SCALE is written as that integer: a value v stands for    *)
(* v / SCALE_DEN.  Products of two such values are written in units of     *)
(* 1 / SCALE_DEN^2.  The bytes drawn in SpecDecode keep every sum below    *)
(* 2^31.                                                                   *)
(***************************************************************************)
\* data[k] of the source: the source counts bytes from 0
At(data, k) == data[k + 1]

u16_from_le_bytes(b0, b1) == b0 + 256 * b1

i16_from_le_bytes(b0, b1) ==
    IF u16_from_le_bytes(b0, b1) >= 32768
    THEN u16_from_le_bytes(b0, b1) - 65536
    ELSE u16_from_le_bytes(b0, b1)

\* the four bytes read most significant byte first
i32_from_be_bytes(b0, b1, b2, b3) ==
    b3 + 256 * b2 + 65536 * b1 + 16777216 * (IF b0 >= 128 THEN b0 - 256 ELSE b0)

i32_from_le_bytes(b0, b1, b2, b3) ==
    b0 + 256 * b1 + 65536 * b2 + 16777216 * (IF b3 >= 128 THEN b3 - 256 ELSE b3)

\* a u32 is kept as its two 16-bit halves: the value is hi * 65536 + lo
u32_from_le_bytes(b0, b1, b2, b3) ==
    [lo |-> u16_from_le_bytes(b0, b1), hi |-> u16_from_le_bytes(b2, b3)]

\* the largest r in lo..hi with r * r <= n
RECURSIVE isqrt_between(_, _, _)
isqrt_between(n, lo, hi) ==
    IF lo = hi
    THEN lo
    ELSE LET mid == (lo + hi + 1) \div 2
         IN  IF mid * mid <= n
             THEN isqrt_between(n, mid, hi)
             ELSE isqrt_between(n, lo, mid - 1)

\* f64::sqrt of v / SCALE_DEN, rounded down to a multiple of 1 / SCALE_DEN
sqrt(v) == isqrt_between(v * SCALE_DEN, 0, 46340)

\* a / b for f64 values, rounded down to a multiple of 1 / SCALE_DEN
fdiv(a, b) == (a * SCALE_DEN) \div b

\* quaternion_to_rotation(w, x, y, z), in units of 1 / SCALE_DEN^2
quaternion_to_rotation(w, x, y, z) ==
    LET one == SCALE_DEN * SCALE_DEN
    IN  <<<<one - 2 * (y * y + z * z), 2 * (x * y - z * w), 2 * (x * z + y * w)>>,
          <<2 * (x * y + z * w), one - 2 * (x * x + z * z), 2 * (y * z - x * w)>>,
          <<2 * (x * z - y * w), 2 * (y * z + x * w), one - 2 * (x * x + y * y)>>>>

\* rotation_to_quaternion(m): [w, x, y, z]; m[r][c] of the source is
\* m[r + 1][c + 1]
rotation_to_quaternion(m) ==
    LET trace == m[1][1] + m[2][2] + m[3][3]
    IN  IF trace > 0
        THEN LET s == sqrt(trace + SCALE_DEN) * 2
             IN  <<s \div 4,
                   fdiv(m[3][2] - m[2][3], s),
                   fdiv(m[1][3] - m[3][1], s),
                   fdiv(m[2][1] - m[1][2], s)>>
        ELSE IF m[1][1] > m[2][2] /\ m[1][1] > m[3][3]
        THEN LET s == sqrt(SCALE_DEN + m[1][1] - m[2][2] - m[3][3]) * 2
             IN  <<fdiv(m[3][2] - m[2][3], s),
                   s \div 4,
                   fdiv(m[1][2] + m[2][1], s),
                   fdiv(m[1][3] + m[3][1], s)>>
        ELSE IF m[2][2] > m[3][3]
        THEN LET s == sqrt(SCALE_DEN + m[2][2] - m[1][1] - m[3][3]) * 2
             IN  <<fdiv(m[1][3] - m[3][1], s),
                   fdiv(m[1][2] + m[2][1], s),
                   s \div 4,
                   fdiv(m[2][3] + m[3][2], s)>>
        ELSE LET s == sqrt(SCALE_DEN + m[3][3] - m[1][1] - m[2][2]) * 2
             IN  <<fdiv(m[2][1] - m[1][2], s),
                   fdiv(m[1][3] + m[3][1], s),
                   fdiv(m[2][3] + m[3][2], s),
                   s \div 4>>

\* parse_rotation_matrix(data): nine i16 from byte 19 on, row by row
parse_rotation_matrix(data) ==
    [r \in 1..3 |->
        [c \in 1..3 |->
            LET idx == 19 + 2 * (3 * (r - 1) + (c - 1))
            IN  i16_from_le_bytes(At(data, idx), At(data, idx + 1))]]

\* XVISIO_ROTATION_PARSE: Auto, Matrix or Quaternion
rotation_parse_mode(value) ==
    IF value = "matrix" THEN "Matrix"
    ELSE IF value \in {"quat", "quaternion"} THEN "Quaternion"
    ELSE "Auto"

\* |row|^2 and row . row of is_plausible_rotation_matrix, in units of
\* 1 / SCALE_DEN^2
norm(m, r) == m[r][1] * m[r][1] + m[r][2] * m[r][2] + m[r][3] * m[r][3]

dot(m, a, b) == m[a][1] * m[b][1] + m[a][2] * m[b][2] + m[a][3] * m[b][3]

abs(v) == IF v < 0 THEN -v ELSE v

\* 0.5, 1.5 and the largest multiple of 1 / SCALE_DEN^2 below 0.7
HALF_SQ == 134217728
ONE_AND_HALF_SQ == 402653184
BELOW_0_7_SQ == 187904819

is_plausible_rotation_matrix(m) ==
    IF \/ ~(norm(m, 1) >= HALF_SQ /\ norm(m, 1) <= ONE_AND_HALF_SQ)
       \/ ~(norm(m, 2) >= HALF_SQ /\ norm(m, 2) <= ONE_AND_HALF_SQ)
       \/ ~(norm(m, 3) >= HALF_SQ /\ norm(m, 3) <= ONE_AND_HALF_SQ)
    THEN FALSE
    ELSE /\ abs(dot(m, 1, 2)) <= BELOW_0_7_SQ
         /\ abs(dot(m, 1, 3)) <= BELOW_0_7_SQ
         /\ abs(dot(m, 2, 3)) <= BELOW_0_7_SQ

\* the closure parse_quaternion: [w, x, y, z] from bytes 19..26 and the
\* rotation matrix they give
parse_quaternion(data) ==
    LET w == i16_from_le_bytes(At(data, 19), At(data, 20))
        x == i16_from_le_bytes(At(data, 21), At(data, 22))
        y == i16_from_le_bytes(At(data, 23), At(data, 24))
        z == i16_from_le_bytes(At(data, 25), At(data, 26))
    IN  [rotation |-> quaternion_to_rotation(w, x, y, z),
         rotation_den |-> SCALE_DEN * SCALE_DEN,
         q |-> <<w, x, y, z>>]

\* the matrix of bytes 19..36 and the quaternion it gives
parse_matrix(data) ==
    [rotation |-> parse_rotation_matrix(data),
     rotation_den |-> SCALE_DEN,
     q |-> rotation_to_quaternion(parse_rotation_matrix(data))]

\* `match rotation_parse_mode()`
parse_rotation(data, mode) ==
    CASE mode = "Quaternion" -> parse_quaternion(data)
      [] mode = "Matrix" -> parse_matrix(data)
      [] mode = "Auto" ->
            IF is_plausible_rotation_matrix(parse_rotation_matrix(data))
            THEN parse_matrix(data)
            ELSE parse_quaternion(data)

\* a clamp that has no upper end
clamp_from_below(v, lo, hi) == IF v < lo THEN lo ELSE v

\* f64::clamp
clamp(v, lo, hi) == IF v < lo THEN lo ELSE IF v > hi THEN hi ELSE v

\* a header test that looks at the report tag alone
has_slam_header_tag_only(data) == At(data, 0) = SLAM_HEADER[1]

\* data[0], data[1], data[2] are SLAM_HEADER
has_slam_header(data) ==
    ~(\/ At(data, 0) # SLAM_HEADER[1]
      \/ At(data, 1) # SLAM_HEADER[2]
      \/ At(data, 2) # SLAM_HEADER[3])

None == [some |-> FALSE]

Some(v) == [some |-> TRUE, value |-> v]

\* three i16 from byte k on
i16_triple(data, k) ==
    [c \in 1..3 |-> i16_from_le_bytes(At(data, k + 2 * (c - 1)), At(data, k + 2 * (c - 1) + 1))]

\* parse_slam_packet(data, epoch) at the time `now` after epoch, the
\* environment giving `mode`.  euler_deg is left out of the sample.
parse_slam_packet(data, mode, now) ==
    IF Len(data) < REPORT_SIZE
    THEN None
    ELSE IF ~has_slam_header(data)
    THEN None
    ELSE LET r == parse_rotation(data, mode)
         IN  Some([timestamp_us |->
                       u32_from_le_bytes(At(data, 3), At(data, 4), At(data, 5), At(data, 6)),
                   translation |->
                       [c \in 1..3 |->
                           i32_from_le_bytes(At(data, 7 + 4 * (c - 1)), At(data, 8 + 4 * (c - 1)),
                                             At(data, 9 + 4 * (c - 1)), At(data, 10 + 4 * (c - 1)))],
                   rotation |-> r.rotation,
                   rotation_den |-> r.rotation_den,
                   quaternion |-> <<r.q[2], r.q[3], r.q[4], r.q[1]>>,
                   host_timestamp_s |-> now,
                   confidence |->
                       clamp(i16_from_le_bytes(At(data, 57), At(data, 58)), 0, SCALE_DEN),
                   imu |-> [accelerometer |-> i16_triple(data, 37),
                            gyroscope |-> i16_triple(data, 43)],
                   raw_extended |-> SubSeq(data, 38, 63)])

(***************************************************************************)
(* protocol.rs: parse_features.  A u32 is written as the set of the        *)
(* positions of its one bits.                                              *)
(***************************************************************************)
\* Features: EDGE_MODE, MIXED_MODE, STEREO, RGB, TOF, IA, SGBM, EYE_TRACKING,
\* FACE_ID
FeaturesAll == {0, 1, 2, 3, 4, 5, 6, 10, 12}

\* the one bits of byte number i (from 0) of a little-endian word
BitsOfByte(b, i) == {8 * i + k : k \in {k \in 0..7 : (b \div (2 ^ k)) % 2 = 1}}

u32_bits_from_le_bytes(b0, b1, b2, b3) ==
    BitsOfByte(b0, 0) \cup BitsOfByte(b1, 1) \cup BitsOfByte(b2, 2) \cup BitsOfByte(b3, 3)

\* every bit of the word is kept
from_bits_retain(bits) == bits

\* Features::from_bits_truncate
from_bits_truncate(bits) == bits \cap FeaturesAll

parse_features(payload) ==
    IF Len(payload) < 4
    THEN {}
    ELSE from_bits_truncate(
             u32_bits_from_le_bytes(payload[1], payload[2], payload[3], payload[4]))

(***************************************************************************)
(* protocol.rs: calls of parse_slam_packet and parse_features              *)
(***************************************************************************)
\* the packet of tests::test_parse_slam_packet
CanonicalPacket ==
    <<1, 162, 51, 107, 209, 37, 95, 88, 1, 0, 0, 30, 0, 0,
      0, 195, 1, 0, 0, 98, 192, 58, 3, 45, 6, 90, 253, 86,
      192, 243, 5, 114, 6, 169, 5, 108, 63, 160, 86, 125, 0, 243,
      255, 242, 255, 0, 0, 0, 0, 0, 0, 4, 0, 9, 0, 7,
      0, 43, 65, 0, 0, 0, 0>>

\* data with the bytes from offset k on replaced by bytes
With(data, k, bytes) ==
    [i \in 1..Len(data) |->
        IF i > k /\ i <= k + Len(bytes) THEN bytes[i - k] ELSE data[i]]

\* the two bytes the device sends for the 16-bit value v
le16(v) == <<((v + 65536) % 65536) % 256, ((v + 65536) % 65536) \div 256>>

\* headers: the right one, and one with each byte wrong
Heads == {<<1, 162, 51>>, <<2, 162, 51>>, <<1, 163, 51>>, <<1, 162, 50>>}

\* device timestamps: zero, the canonical one, the top bit alone, 2^32 - 1
Timestamps == {<<0, 0, 0, 0>>, <<107, 209, 37, 95>>, <<0, 0, 0, 128>>, <<255, 255, 255, 255>>}

\* a translation component: 0, 344, -1, the smallest and the largest i32
Components ==
    {<<0, 0, 0, 0>>, <<88, 1, 0, 0>>, <<255, 255, 255, 255>>, <<0, 0, 0, 128>>,
     <<255, 255, 255, 127>>}

\* rows of a rotation payload: the unit vectors, the null row, rows of length
\* 0.6 and 0.75, a unit row at 37 degrees from the first axis, and two rows of
\* length 1.41 at a right angle
Rows ==
    {<<16384, 0, 0>>, <<0, 16384, 0>>, <<0, 0, 16384>>, <<0, 0, 0>>,
     <<9830, 0, 0>>, <<0, 12288, 0>>, <<13107, 9830, 0>>,
     <<16384, 16384, 0>>, <<16384, -16384, 0>>}

RowBytes(row) == le16(row[1]) \o le16(row[2]) \o le16(row[3])

\* the confidence word: 0, 0.5, 1, the canonical 1.018, the largest i16, -1 and
\* the smallest i16
Confidences == {0, 8192, 16384, 16683, 32767, -1, -32768}

\* the canonical packet with one group of fields replaced
Packets ==
    {With(CanonicalPacket, 0, h) : h \in Heads}
    \cup {With(With(CanonicalPacket, 3, t), 7, c1 \o c2 \o c1) :
             t \in Timestamps, c1 \in Components, c2 \in Components}
    \cup {With(CanonicalPacket, 19, RowBytes(r1) \o RowBytes(r2) \o RowBytes(r3)) :
             r1 \in Rows, r2 \in Rows, r3 \in Rows}
    \cup {With(CanonicalPacket, 57, le16(c)) : c \in Confidences}

\* what a reader may hand to parse_slam_packet: every truncation of a packet,
\* the packets, and packets with bytes after them
Buffers(maxExtra) ==
    {SubSeq(CanonicalPacket, 1, n) : n \in 0..(REPORT_SIZE - 1)}
    \cup {SubSeq(With(CanonicalPacket, 0, <<2>>), 1, n) : n \in 0..(REPORT_SIZE - 1)}
    \cup {p \o Zeros(k) : p \in Packets, k \in 0..maxExtra}

\* bytes of a features payload: none, all, bits 10 and 12, bit 7
FeatureBytes == {0, 255, 20, 128}

Payloads(maxLen) == UNION {[1..n -> FeatureBytes] : n \in 0..maxLen}

\* values of XVISIO_ROTATION_PARSE, "" for unset
RotationParseValues == {"", "matrix", "quat", "quaternion", "auto"}

\* parse_slam_packet(&codec.data, epoch)
call_parse_slam_packet(maxElapsed) ==
    /\ \E now \in 0..maxElapsed :
         codec' = [codec EXCEPT
                      !.fn = "parse_slam_packet",
                      !.returned =
                          parse_slam_packet(codec.data, rotation_parse_mode(codec.env), now)]
    /\ UNCHANGED <<opening, dvars, svars>>

\* parse_features(&codec.data)
call_parse_features ==
    /\ codec' = [codec EXCEPT !.fn = "parse_features",
                              !.returned = parse_features(codec.data)]
    /\ UNCHANGED <<opening, dvars, svars>>

(***************************************************************************)
(* protocol.rs: parse_slam_packet and parse_features on every input        *)
(***************************************************************************)
InitDecode ==
    /\ NoStream
    /\ platform = "other"
    /\ env = NoEnv
    /\ dev = NoHandles
    /\ ss = Idle
    /\ calls = 0
    /\ cmdResult = "none"
    /\ opening = NoCall
    /\ codec \in {[fn |-> "none", data |-> d, env |-> v, returned |-> <<>>] :
                    d \in Buffers(MaxExtra) \cup Payloads(MaxPayloadLen),
                    v \in RotationParseValues}

NextDecode ==
    \/ call_parse_slam_packet(MaxElapsed)
    \/ call_parse_features

SpecDecode == InitDecode /\ [][NextDecode]_vars

(***************************************************************************)
(* protocol.rs: build_command and validate_response on every input         *)
(***************************************************************************)
InitCodec ==
    /\ NoStream
    /\ platform = "other"
    /\ env = NoEnv
    /\ dev = NoHandles
    /\ ss = Idle
    /\ calls = 0
    /\ cmdResult = "none"
    /\ opening = NoCall
    /\ codec \in {[NoCodec EXCEPT !.response = r, !.cmd = c] :
                    r \in ByteStrings(MaxResponseLen), c \in Commands(MaxCmdLen, MaxOver)}

NextCodec ==
    \/ call_validate_response
    \/ call_build_command
    \/ call_round_trip

SpecCodec == InitCodec /\ [][NextCodec]_vars

(***************************************************************************)
(* The streaming engine                                                    *)
(***************************************************************************)
StreamInit ==
    /\ backend \in {"hidapi", "rusb"}
    /\ stop_flag = FALSE
    /\ queue = <<>>
    /\ rpc = "loop"
    /\ consecutive_errors = 0
    /\ parsed = 0
    /\ drops = 0
    /\ lastReadGone = FALSE
    /\ hpc = "live"
    /\ delivered = <<>>
    /\ lastRecv = [op |-> "none", result |-> "none"]

\* what a start_slam call in Edge mode with no option set does on the
\* transport when every call succeeds
StartedWire(b) ==
    IF b = "rusb"
    THEN <<Ev("main_sequence", <<>>, TRUE),
           Ev("usb_open", <<>>, TRUE), Ev("claim", <<HID_INTERFACE>>, TRUE),
           ControlWrote(build_configure_cmd_with_uvc(TRUE, 0, FALSE), "ok"),
           Ev("usb_open", <<>>, TRUE), Ev("claim", <<HID_INTERFACE>>, TRUE),
           ControlWrote(build_edge_stream_cmd_with_params(1, TRUE, FALSE), "ok"),
           Ev("spawn", <<>>, TRUE)>>
    ELSE <<Wrote(configure_frame(TRUE, FALSE), "ok"),
           Wrote(edge_stream_frame(TRUE), "ok"),
           Ev("open_path", <<>>, TRUE), Ev("spawn", <<>>, TRUE)>>

\* a stream just started by start_slam (Edge mode, no option set)
Init ==
    /\ StreamInit
    /\ platform = IF backend = "rusb" THEN "macos" ELSE "other"
    /\ env = NoEnv
    /\ dev = IF backend = "rusb" THEN NoHandles ELSE BothHandles
    /\ ss = [Idle EXCEPT !.pc = "done", !.result = "Ok", !.wire = StartedWire(backend)]
    /\ calls = 1
    /\ cmdResult = "none"
    /\ opening = Opened
    /\ codec = NoCodec

Next ==
    \/ slam_reader_loop_head
    \/ slam_reader_hidapi_read(MaxPoses, FALSE, 0)
    \/ slam_reader_rusb_read(MaxPoses, MaxErrs, FALSE, 0)
    \/ recv
    \/ try_recv
    \/ recv_timeout
    \/ shutdown_store
    \/ shutdown_join_in_drop
    \/ shutdown_join_in_stop
    \/ drop_after_stop

Spec == Init /\ [][Next]_vars

(***************************************************************************)
(* The readers with every read, what they made of it and the host clock    *)
(* kept in codec                                                           *)
(***************************************************************************)
InitReader ==
    /\ StreamInit
    /\ platform = IF backend = "rusb" THEN "macos" ELSE "other"
    /\ env = NoEnv
    /\ dev = IF backend = "rusb" THEN NoHandles ELSE BothHandles
    /\ ss = [Idle EXCEPT !.pc = "done", !.result = "Ok", !.wire = StartedWire(backend)]
    /\ calls = 1
    /\ cmdResult = "none"
    /\ opening = Opened
    /\ codec = NoTrace

NextReader ==
    \/ slam_reader_loop_head
    \/ slam_reader_hidapi_read(MaxTracedPoses, TRUE, MaxClock)
    \/ slam_reader_rusb_read(MaxTracedPoses, MaxTracedErrs, TRUE, MaxClock)
    \/ recv
    \/ shutdown_store
    \/ shutdown_join_in_drop

SpecReader == InitReader /\ [][NextReader]_vars

(***************************************************************************)
(* slam_reader_rusb on a transport whose reads keep failing                *)
(***************************************************************************)
InitErrors == Init /\ backend = "rusb"

\* no frame read is a pose: the reader reads, counts and is stopped
NextErrors ==
    \/ slam_reader_loop_head
    \/ slam_reader_rusb_read(0, MaxConsecutive, FALSE, 0)
    \/ shutdown_store
    \/ shutdown_join_in_drop

SpecErrors == InitErrors /\ [][NextErrors]_vars

\* the reader thread runs, its reads return within their timeout, and a
\* thread blocked in join() resumes once the reader has ended
FairSpec ==
    /\ Spec
    /\ WF_vars(slam_reader_loop_head)
    /\ WF_vars(slam_reader_hidapi_read(MaxPoses, FALSE, 0))
    /\ WF_vars(slam_reader_rusb_read(MaxPoses, MaxErrs, FALSE, 0))
    /\ WF_vars(shutdown_join_in_drop \/ shutdown_join_in_stop)

(***************************************************************************)
(* Properties of the streaming engine                                      *)
(***************************************************************************)
\* a step in which the reader parsed a sample and handed it to try_send
ReaderDispatched == parsed' = parsed + 1

\* a step in which a consumer call returned
ConsumerReturned == lastRecv' # lastRecv \/ delivered' # delivered

StrictlyIncreasing(s) == \A i, j \in 1..Len(s) : i < j => s[i] < s[j]

\* C1: with 256 samples queued the reader's send does not wait: the new sample
\* is dropped, the queue is left alone and the reader is back at the head of
\* its loop; with room in the queue (again) the sample parsed is enqueued.
C1_FullQueueDropsNewSample ==
    [][ReaderDispatched =>
          /\ rpc' = "loop"
          /\ Len(queue) = CHANNEL_CAPACITY
               => (queue' = queue /\ drops' = drops + 1)
          /\ (Len(queue) < CHANNEL_CAPACITY /\ ReceiverAlive)
               => (queue' = Append(queue, parsed') /\ drops' = drops)]_vars

\* a sample was dropped on a full queue, a consumer took one, and the sample
\* parsed after that is in the queue
C1_Witness ==
    /\ drops > 0
    /\ delivered # <<>>
    /\ Len(queue) = CHANNEL_CAPACITY
    /\ queue[Len(queue)] = parsed
    /\ parsed > CHANNEL_CAPACITY + 1

\* C2: once stop() or the drop of the handle has entered shutdown the stop
\* flag is set, and the reader leaves its loop and the join returns, whatever
\* the queue holds and on both backends.
C2_ShutdownJoinsReader ==
    /\ [](hpc # "live" => stop_flag)
    /\ (hpc = "joining") ~> (ReaderTerminated /\ hpc \in {"stop_drop", "dropped"})

\* the join has returned with a full queue that no consumer ever drained
C2_Witness ==
    /\ hpc = "stop_drop"
    /\ rpc = "exited"
    /\ Len(queue) = CHANNEL_CAPACITY
    /\ delivered = <<>>

\* C3: the samples delivered are samples the reader parsed, in the order it
\* parsed them, none of them twice.
C3_DeliveredInParseOrder ==
    /\ StrictlyIncreasing(delivered)
    /\ \A i \in 1..Len(delivered) : delivered[i] \in 1..parsed

\* two samples were delivered and the reader has dropped one
C3_Witness == Len(delivered) >= 2 /\ drops > 0

\* C4: after a read that reported the device gone the reader has set the stop
\* flag and left its loop.
C4_DeviceGoneStopsReader ==
    lastReadGone => (stop_flag /\ rpc = "exited" /\ ~is_active)

\* C5: with the reader gone, recv and recv_timeout hand out what is still
\* queued and then return StreamStopped.
C5_RecvAfterReaderExit ==
    [][(ReaderTerminated /\ ConsumerReturned
          /\ lastRecv'.op \in {"recv", "recv_timeout"}) =>
          IF queue # <<>>
          THEN /\ lastRecv'.result = "Sample"
               /\ delivered' = Append(delivered, Head(queue))
          ELSE /\ lastRecv'.result = "StreamStopped"
               /\ delivered' = delivered]_vars

\* recv_timeout returned StreamStopped after samples had been delivered
C5_Witness ==
    /\ ReaderTerminated
    /\ hpc = "live"
    /\ lastRecv = [op |-> "recv_timeout", result |-> "StreamStopped"]
    /\ delivered # <<>>

\* C6: the queue never holds more than 256 samples.
C6_QueueBounded == Len(queue) <= CHANNEL_CAPACITY

\* the queue is full
C6_Witness == Len(queue) = CHANNEL_CAPACITY /\ ReceiverAlive

(***************************************************************************)
(* Properties of Device::start_slam                                        *)
(***************************************************************************)
Returned == ss.pc = "done"

ReturnedOk == Returned /\ ss.result = "Ok"

ReturnedErr == Returned /\ ss.result # "Ok"

\* the transport event e carries the command cmd
IsCommand(e, cmd) ==
    /\ e.ev \in {"write", "control_write"}
    /\ SubSeq(e.arg, 2, 1 + Len(cmd)) = cmd

\* the three parameter bytes after a two-byte command
Params(e) == SubSeq(e.arg, 4, 6)

\* C7: once start_slam has returned a stream, hid_command returns an error
\* and does not reach the device, whatever the startup path.
C7_CommandUnavailableAfterStart ==
    (ReturnedOk /\ cmdResult # "none") => cmdResult = "HidCommand"

\* C8: when start_slam returns an error no reader has been started and the
\* session holds the command transport it held before the call, so that
\* hid_command still reaches the device.
C8_StartAllOrNothing ==
    ReturnedErr =>
        /\ rpc = "none"
        /\ dev.hid = ss.pre_hid
        /\ (ss.pre_hid /\ cmdResult # "none") => cmdResult = "transaction"

\* C9: on the non-recovery path, in either mode, the first command is
\* CONFIGURE, the second is EDGE_STREAM with the parameters (1, 1, 0), and
\* the second handle is opened only after both.
C9_NonRecoveryCommandOrder ==
    StartupPath = "hidapi" =>
        \A i \in 1..Len(ss.wire) :
            LET e == ss.wire[i]
            IN  /\ (i = 1) => IsCommand(e, CMD_CONFIGURE)
                /\ (i = 2) => (IsCommand(e, CMD_EDGE_STREAM) /\ Params(e) = <<1, 1, 0>>)
                /\ (e.ev = "open_path") => (i = 3)

ModeTriple(m) == IF m = "Edge" THEN <<1, 0, 0>> ELSE <<0, 0, 1>>

DefaultOptions == env = NoEnv

ConfigureEvents == {i \in 1..Len(ss.wire) : IsCommand(ss.wire[i], CMD_CONFIGURE)}

IsMainSequenceMark(e) == e.ev = "main_sequence"

IsControlWrite(e) == e.ev = "control_write"

IsSpawn(e) == e.ev = "spawn"

Happened(Is(_)) == \E i \in 1..Len(ss.wire) : Is(ss.wire[i])

\* what start_slam_rusb has done since it entered its main sequence
MainEvents ==
    IF Happened(IsMainSequenceMark)
    THEN SubSeq(ss.wire,
                (CHOOSE i \in 1..Len(ss.wire) : IsMainSequenceMark(ss.wire[i])) + 1,
                Len(ss.wire))
    ELSE <<>>

\* the commands written in the main sequence, in order
MainWrites == SelectSeq(MainEvents, IsControlWrite)

StereoInitEnabled == read_env_bool("XVISIO_ENABLE_STEREO_INIT", FALSE)

ReopenAfterConfig == read_env_bool("XVISIO_REOPEN_AFTER_CONFIG", TRUE)

RotationEnabled == read_env_bool("XVISIO_ROTATION_ENABLED", TRUE)

\* C11: on the raw-USB path with stereo init and the re-open after configure
\* enabled, the main sequence writes CONFIGURE, STEREO_INIT, STEREO_START and
\* EDGE_STREAM(1, 1, 0) in this order, each once, and the reader is started
\* only after EDGE_STREAM has been written.
C11_RawUsbMainCommandOrder ==
    (StartupPath = "rusb" /\ StereoInitEnabled /\ ReopenAfterConfig /\ RotationEnabled) =>
        LET w == MainWrites
        IN  /\ Len(w) <= 4
            /\ (Len(w) >= 1) => IsCommand(w[1], CMD_CONFIGURE)
            /\ (Len(w) >= 2) => IsCommand(w[2], CMD_STEREO_CAMERA_INIT)
            /\ (Len(w) >= 3) => IsCommand(w[3], CMD_STEREO_CAMERA_START)
            /\ (Len(w) >= 4) => (IsCommand(w[4], CMD_EDGE_STREAM)
                                   /\ Params(w[4]) = <<1, 1, 0>>)
            /\ Happened(IsSpawn) => (Len(w) = 4 /\ w[4].ok)

IsStereoCommand(e) ==
    IsCommand(e, CMD_STEREO_CAMERA_INIT) \/ IsCommand(e, CMD_STEREO_CAMERA_START)

\* C12: a STEREO_INIT or STEREO_START that failed does not end start_slam: when
\* start_slam has returned, an EDGE_STREAM was sent after every failed stereo
\* command, on the feature-report path and on the raw-USB path.
C12_StereoFailureNotFatal ==
    Returned =>
        \A i \in 1..Len(ss.wire) :
            (IsStereoCommand(ss.wire[i]) /\ ~ss.wire[i].ok) =>
                \E j \in (i + 1)..Len(ss.wire) : IsCommand(ss.wire[j], CMD_EDGE_STREAM)

IsAckWarning(e) == e.ev \in {"ack_read_failed", "ack_too_short", "ack_mismatch"}

\* this step sent a command on the raw transport
SentRaw ==
    /\ Len(ss'.wire) > Len(ss.wire)
    /\ SubSeq(ss'.wire, 1, Len(ss.wire)) = ss.wire
    /\ IsControlWrite(ss'.wire[Len(ss.wire) + 1])

\* the events the step has added
Added == SubSeq(ss'.wire, Len(ss.wire) + 1, Len(ss'.wire))

\* C13: on the raw transport a send whose control write succeeded never ends
\* start_slam, whether the acknowledgement could not be read, was too short,
\* had a wrong prefix or echo, or was right; the acknowledgement is read only
\* after a write that succeeded; and a send whose control write failed ends
\* start_slam with HidCommand wherever the result of the send is returned.
C13_AckIsAdvisory ==
    [][SentRaw =>
          /\ Added[1].ok => ss'.pc # "done"
          /\ Len(Added) <= 2
          /\ (Len(Added) = 2) => (Added[1].ok /\ IsAckWarning(Added[2]))
          /\ (~Added[1].ok /\ ss.pc \in {"rusb_configure", "rusb_edge_stream"})
                => (ss'.pc = "done" /\ ss'.result = "HidCommand")
          /\ (~Added[1].ok /\ ss.pc \notin {"rusb_configure", "rusb_edge_stream"})
                => ss'.pc # "done"]_vars

\* a raw-USB start has succeeded although an acknowledgement was missing or
\* malformed
C13_Witness ==
    /\ StartupPath = "rusb"
    /\ ReturnedOk
    /\ \E i \in 1..Len(ss.wire) : ss.wire[i].ev = "ack_mismatch"

EdgeStreamSends == {i \in 1..Len(ss.wire) : IsCommand(ss.wire[i], CMD_EDGE_STREAM)}

EveryEdgeStreamFailed == \A i \in EdgeStreamSends : ~ss.wire[i].ok

InMainSequence(i) ==
    StartupPath = "rusb" =>
        (Happened(IsMainSequenceMark) /\ i > Len(ss.wire) - Len(MainEvents))

FailedConfigure(i) == IsCommand(ss.wire[i], CMD_CONFIGURE) /\ ~ss.wire[i].ok

\* C15: on every startup path a CONFIGURE of the main sequence whose write
\* failed is the last thing start_slam did: the call has returned HidCommand,
\* no later command was sent and no reader was started; a CONFIGURE that
\* failed in a precondition cycle never ends the call.
C15_ConfigureFailureFatal ==
    \A i \in 1..Len(ss.wire) :
        /\ (FailedConfigure(i) /\ InMainSequence(i)) =>
              /\ i = Len(ss.wire)
              /\ ReturnedErr
              /\ ss.result = "HidCommand"
              /\ rpc = "none"
        /\ (FailedConfigure(i) /\ ~InMainSequence(i) /\ Returned) => i < Len(ss.wire)

\* the main CONFIGURE of a raw-USB start failed after a precondition cycle
C15_Witness ==
    /\ StartupPath = "rusb"
    /\ ss.cycle > 0
    /\ \E i \in 1..Len(ss.wire) : FailedConfigure(i) /\ InMainSequence(i)


(***************************************************************************)
(* Properties of open_first, open and list_devices                         *)
(***************************************************************************)
IsOpenCall == opening.fn \in {"open_first", "open"}

OpenReturned == opening.pc = "done"

\* the device answered the query with the prefix 0x01 and the echo of cmd
ValidAnswer(s) ==
    /\ s.io.kind = "ok"
    /\ Len(s.io.response) >= 1 + Len(s.cmd)
    /\ s.io.response[1] = PREFIX_DEVICE_TO_HOST
    /\ SubSeq(s.io.response, 2, 1 + Len(s.cmd)) = s.cmd

\* the error a query that was not answered validly ends with
AnswerError(s) ==
    IF s.io.kind # "ok"
    THEN "HidCommand"
    ELSE IF s.io.response = <<>> \/ s.io.response[1] # PREFIX_DEVICE_TO_HOST
         THEN "InvalidResponse"
         ELSE "CommandMismatch"

\* the device the call looks for is in the enumeration
Matching ==
    \E i \in 1..Len(opening.list) :
        /\ is_xr50_hid(opening.list[i])
        /\ opening.fn = "open" => i = opening.bus_id

\* the three identity queries went to device d, in order, all answered validly
AllQueriesSucceeded(sent, d) ==
    /\ Len(sent) = 3
    /\ \A q \in 1..3 :
        /\ sent[q].dev = d
        /\ sent[q].cmd = IdentityCommands[q]
        /\ ValidAnswer(sent[q])

\* C16: open_first and open return a session only after UUID, VERSION and
\* FEATURES, in that order, were each answered validly by the matching device;
\* a query that fails is the last one sent, its error is the result of the call
\* and no session exists; when the enumeration holds no matching device the
\* result is DeviceNotFound and no command was sent.
C16_OpenNeedsIdentity ==
    IsOpenCall =>
        /\ dev.hid => (OpenReturned /\ opening.result = "Ok")
        /\ (OpenReturned /\ opening.result = "Ok") =>
              /\ dev = BothHandles
              /\ opening.i > 0 /\ is_xr50_hid(opening.list[opening.i])
              /\ AllQueriesSucceeded(opening.sent, opening.i)
        /\ \A q \in 1..Len(opening.sent) :
              /\ opening.sent[q].cmd = IdentityCommands[q]
              /\ ~ValidAnswer(opening.sent[q]) =>
                    /\ q = Len(opening.sent)
                    /\ OpenReturned
                    /\ opening.result = AnswerError(opening.sent[q])
                    /\ dev = NoHandles
        /\ (OpenReturned /\ opening.result = "DeviceNotFound") =>
              (~Matching /\ opening.sent = <<>> /\ dev = NoHandles)
        /\ (OpenReturned /\ ~Matching /\ opening.result # "Hid") =>
              opening.result = "DeviceNotFound"

\* open(info) sent the three queries and returned the error of the third
C16_Witness ==
    /\ opening.fn = "open"
    /\ OpenReturned
    /\ Len(opening.sent) = 3
    /\ opening.result = "CommandMismatch"
    /\ opening.bus_id = 2


IsListCall == opening.fn = "list_devices"

\* the queries that were sent to device d
SentTo(d) ==
    LET To(s) == s.dev = d
    IN  SelectSeq(opening.sent, To)

\* the devices of the enumeration that match the XR50
Xr50s == {d \in 1..Len(opening.list) : is_xr50_hid(opening.list[d])}

\* C17: list_devices returns, in enumeration order, exactly the devices with
\* vendor 0x040E, product 0xF408 and the HID interface whose three identity
\* queries were all answered validly; a device that cannot be opened or queried
\* is left out, the devices after it are still queried, and the result is Ok.
C17_ListSkipsBadDevices ==
    (IsListCall /\ OpenReturned) =>
        /\ opening.result \in {"Ok", "Hid"}
        /\ opening.result = "Hid" =>
              (opening.visited = {} /\ opening.sent = <<>> /\ opening.out = <<>>)
        /\ opening.result = "Ok" =>
              /\ opening.visited = Xr50s
              /\ \A k \in 1..(Len(opening.out) - 1) : opening.out[k] < opening.out[k + 1]
              /\ \A d \in 1..Len(opening.list) :
                    (\E k \in 1..Len(opening.out) : opening.out[k] = d)
                        <=> (d \in Xr50s /\ AllQueriesSucceeded(SentTo(d), d))
              /\ \A d \in 1..Len(opening.list) :
                    d \notin Xr50s => SentTo(d) = <<>>

\* the first device failed a query and the second one was returned
C17_Witness ==
    /\ IsListCall
    /\ OpenReturned
    /\ opening.result = "Ok"
    /\ opening.out = <<2>>
    /\ SentTo(1) # <<>>
    /\ ~ValidAnswer(opening.sent[Len(SentTo(1))])


(***************************************************************************)
(* Properties of protocol.rs: build_command and validate_response          *)
(***************************************************************************)
\* the bytes after byte 0 hold the echo of cmd
EchoPresent(response, cmd) ==
    /\ Len(response) >= 1 + Len(cmd)
    /\ \A k \in 1..Len(cmd) : response[1 + k] = cmd[k]

\* C18: validate_response fails with InvalidResponse(0) on an empty buffer and
\* with InvalidResponse(b) when byte 0 is b # 0x01, whatever follows; with byte
\* 0 = 0x01 it fails with CommandMismatch when the bytes after it are not the
\* expected opcode or the buffer is too short to hold it, and otherwise
\* returns 1 + len(expected opcode).
C18_ValidateResponse ==
    codec.fn = "validate_response" =>
        LET r == codec.response
            c == codec.cmd
        IN  /\ r = <<>> => codec.returned = Err("InvalidResponse", 0)
            /\ (r # <<>> /\ r[1] # 1) => codec.returned = Err("InvalidResponse", r[1])
            /\ (r # <<>> /\ r[1] = 1 /\ ~EchoPresent(r, c)) =>
                  codec.returned = Err("CommandMismatch", 0)
            /\ (r # <<>> /\ r[1] = 1 /\ EchoPresent(r, c)) =>
                  codec.returned = Ok(1 + Len(c))

\* a buffer with a wrong prefix and a wrong echo was rejected for its prefix
C18_Witness ==
    /\ codec.fn = "validate_response"
    /\ Len(codec.response) = 3
    /\ codec.response[1] = 2
    /\ Len(codec.cmd) = 2
    /\ ~EchoPresent(codec.response, codec.cmd)
    /\ codec.returned = Err("InvalidResponse", 2)

\* C19: build_command returns 63 bytes: 0x02, then the input bytes from offset
\* 1 on, then zeros; of an input longer than 62 bytes the first 62 are kept.
C19_BuildCommand ==
    codec.fn = "build_command" =>
        LET kept == IF Len(codec.cmd) < 62 THEN Len(codec.cmd) ELSE 62
        IN  /\ Len(codec.returned) = 63
            /\ codec.returned[1] = 2
            /\ \A k \in 1..kept : codec.returned[1 + k] = codec.cmd[k]
            /\ \A k \in (2 + kept)..63 : codec.returned[k] = 0

\* an input of more than 62 bytes was truncated
C19_Witness ==
    /\ codec.fn = "build_command"
    /\ Len(codec.cmd) > 62
    /\ Len(codec.returned) = 63
    /\ codec.returned[63] = codec.cmd[62]

\* C20: for an opcode of at most 62 bytes, validate_response accepts
\* build_command(op) with byte 0 replaced by 0x01 and returns 1 + len(op).
C20_RoundTrip ==
    (codec.fn = "round_trip" /\ Len(codec.cmd) <= 62) =>
        codec.returned = Ok(1 + Len(codec.cmd))

\* an opcode that fills the report was echoed and accepted
C20_Witness ==
    /\ codec.fn = "round_trip"
    /\ Len(codec.cmd) = 62
    /\ codec.returned = Ok(63)


(***************************************************************************)
(* Properties of the consumer calls on a running stream                    *)
(***************************************************************************)
\* C24: recv_timeout on a live stream whose reader is running and has nothing
\* queued returns Timeout, not StreamStopped, and changes neither the stop flag
\* nor the reader: is_active() is still true and the reader still runs.
C24_TimeoutKeepsStreamLive ==
    [][(ConsumerReturned /\ lastRecv'.op = "recv_timeout"
          /\ hpc = "live" /\ is_active /\ ~ReaderTerminated /\ queue = <<>>) =>
          /\ lastRecv'.result = "Timeout"
          /\ ~stop_flag'
          /\ rpc' = rpc
          /\ hpc' = "live"]_vars

\* recv_timeout has timed out before any sample was parsed and the stream is
\* still active
C24_Witness ==
    /\ lastRecv = [op |-> "recv_timeout", result |-> "Timeout"]
    /\ parsed = 0
    /\ hpc = "live"
    /\ is_active
    /\ ~ReaderTerminated


(***************************************************************************)
(* Properties of the error counter of slam_reader_rusb                     *)
(***************************************************************************)
\* C25: once 1000 recoverable read errors have followed one another the reader
\* has set the stop flag and left its loop: it does not read again.
C25_ExitsAfterThousandErrors ==
    consecutive_errors >= 1000 => (stop_flag /\ rpc = "exited")


(***************************************************************************)
(* Properties of the pose decoder and of parse_features                    *)
(***************************************************************************)
Parsed == codec.fn = "parse_slam_packet"

\* the buffer holds at least 63 bytes and starts with 0x01 0xA2 0x33
ValidPacket(data) ==
    /\ Len(data) >= 63
    /\ data[1] = 1
    /\ data[2] = 162
    /\ data[3] = 51

\* C21: parse_slam_packet returns no sample for a buffer shorter than 63 bytes,
\* the empty one included, and for a buffer whose first three bytes are not
\* 0x01 0xA2 0x33; it returns in every case.
C21_ShortOrForeignGivesNone ==
    (Parsed /\ ~ValidPacket(codec.data)) => codec.returned = None

\* a 63-byte buffer whose third byte is wrong gave no sample
C21_Witness ==
    /\ Parsed
    /\ Len(codec.data) = 63
    /\ codec.data[1] = 1
    /\ codec.data[2] = 162
    /\ codec.data[3] # 51
    /\ codec.returned = None

\* w^2 + x^2 + y^2 + z^2 of the sample's quaternion, in units of 1 / 2^28
MagnitudeSquared(q) == q[1] * q[1] + q[2] * q[2] + q[3] * q[3] + q[4] * q[4]

\* C22: every 63-byte packet that starts with 0x01 0xA2 0x33 gives a sample,
\* whatever its bytes 19..36 are, and the magnitude of the sample's quaternion
\* is in [0.95, 1.05]: its square is in [0.9025, 1.1025].
C22_QuaternionIsUnit ==
    (Parsed /\ ValidPacket(codec.data) /\ Len(codec.data) = 63) =>
        /\ codec.returned.some
        /\ MagnitudeSquared(codec.returned.value.quaternion) >= 242263000
        /\ MagnitudeSquared(codec.returned.value.quaternion) <= 295950745

\* byte number k (from 0) of the two's complement form of v
ByteOf(v, k) == (v \div (256 ^ k)) % 256

\* C23: timestamp_us of a sample is the unsigned little-endian value of bytes
\* 3..6, below 2^32, and each translation component is the signed
\* little-endian value of its four bytes in 7..18, over 16384; the canonical
\* packet gives timestamp_us = 1596313963.
C23_TimestampAndTranslation ==
    (Parsed /\ ValidPacket(codec.data)) =>
        LET d == codec.data
            s == codec.returned.value
        IN  /\ codec.returned.some
            /\ s.timestamp_us.lo \in 0..65535
            /\ s.timestamp_us.hi \in 0..65535
            /\ s.timestamp_us.lo = d[4] + 256 * d[5]
            /\ s.timestamp_us.hi = d[6] + 256 * d[7]
            /\ \A c \in 1..3 : \A k \in 0..3 :
                  ByteOf(s.translation[c], k) = d[4 + 4 * c + k]
            /\ SubSeq(d, 1, 63) = CanonicalPacket =>
                  s.timestamp_us.hi * 65536 + s.timestamp_us.lo = 1596313963

\* a packet with every timestamp byte 0xFF and a negative first translation
\* component was decoded
C23_Witness ==
    /\ Parsed
    /\ codec.returned.some
    /\ codec.returned.value.timestamp_us = [lo |-> 65535, hi |-> 65535]
    /\ codec.returned.value.translation[1] = -1
    /\ codec.returned.value.translation[2] = 2147483647

\* the matrix test as the claim words it: the length of every row in
\* [0.5, 1.5], every dot product of two rows below 0.7 in absolute value
RowLengthsPlausible(m) ==
    /\ \A r \in 1..3 : norm(m, r) >= 67108864 /\ norm(m, r) <= 603979776
    /\ abs(dot(m, 1, 2)) <= 187904819
    /\ abs(dot(m, 1, 3)) <= 187904819
    /\ abs(dot(m, 2, 3)) <= 187904819

\* the i16 at offset k of the source
Word(d, k) == IF d[k + 2] > 127 THEN d[k + 1] + 256 * d[k + 2] - 65536
              ELSE d[k + 1] + 256 * d[k + 2]

\* C27: in auto mode the sample carries the matrix of bytes 19..36 exactly
\* when each of its rows has a length in [0.5, 1.5] and its rows have pairwise
\* dot products below 0.7 in absolute value; otherwise its quaternion is the
\* [w, x, y, z] of bytes 19..26.
C27_AutoRotationChoice ==
    (Parsed /\ ValidPacket(codec.data) /\ rotation_parse_mode(codec.env) = "Auto") =>
        LET d == codec.data
            s == codec.returned.value
            m == [r \in 1..3 |-> [c \in 1..3 |-> Word(d, 19 + 6 * (r - 1) + 2 * (c - 1))]]
        IN  IF RowLengthsPlausible(m)
            THEN s.rotation = m /\ s.rotation_den = SCALE_DEN
            ELSE /\ s.quaternion = <<Word(d, 21), Word(d, 23), Word(d, 25), Word(d, 19)>>
                 /\ s.rotation_den = SCALE_DEN * SCALE_DEN

\* C28: the confidence of a sample is the signed little-endian value of bytes
\* 57..58 over 16384, 0 when that is negative and 1 when it is above 1: it is
\* in [0, 1].
C28_ConfidenceClamped ==
    (Parsed /\ ValidPacket(codec.data)) =>
        LET raw == Word(codec.data, 57)
            c == codec.returned.value.confidence
        IN  /\ c >= 0
            /\ c <= 16384
            /\ c = (IF raw < 0 THEN 0 ELSE IF raw > 16384 THEN 16384 ELSE raw)

\* a confidence word above 1 was decoded
C28_Witness ==
    /\ Parsed
    /\ codec.returned.some
    /\ Word(codec.data, 57) = 32767
    /\ codec.returned.value.confidence = 16384

\* bit number b of the little-endian word in the first four bytes
BitSet(d, b) == (d[(b \div 8) + 1] \div (2 ^ (b % 8))) % 2 = 1

\* C30: parse_features gives the empty bitmap for a payload of fewer than 4
\* bytes; otherwise each of the bits 0, 1, 2, 3, 4, 5, 6, 10 and 12 is set in
\* the result exactly when it is set in the little-endian word of the first
\* four bytes, and no other bit is set.
C30_ParseFeatures ==
    codec.fn = "parse_features" =>
        IF Len(codec.data) < 4
        THEN codec.returned = {}
        ELSE /\ codec.returned \subseteq {0, 1, 2, 3, 4, 5, 6, 10, 12}
             /\ \A b \in {0, 1, 2, 3, 4, 5, 6, 10, 12} :
                   b \in codec.returned <=> BitSet(codec.data, b)

\* a word with known and unknown bits set was decoded
C30_Witness ==
    /\ codec.fn = "parse_features"
    /\ Len(codec.data) = 4
    /\ BitSet(codec.data, 7)
    /\ BitSet(codec.data, 12)
    /\ BitSet(codec.data, 31)
    /\ codec.returned = {0, 1, 2, 3, 4, 5, 6, 10, 12}

(***************************************************************************)
(* C26: within one stream the host timestamps of the samples the consumer  *)
(* receives never decrease in delivery order.                              *)
(***************************************************************************)
HostTimestamp(sample) == codec.stamps[sample]

C26_HostTimestampsNonDecreasing ==
    \A i, j \in 1..Len(delivered) :
        i < j => HostTimestamp(delivered[i]) <= HostTimestamp(delivered[j])

\* two samples were received and the clock moved between their parses
C26_Witness ==
    /\ Len(delivered) >= 2
    /\ HostTimestamp(delivered[1]) < HostTimestamp(delivered[2])

(***************************************************************************)
(* C29: of the last frame read, one of the raw transport that starts with  *)
(* A2 33 went on as 0x01 followed by the frame, one of at least 63 bytes   *)
(* that starts with 0x01 went on unchanged, and any other frame was        *)
(* dropped; no frame stopped the reader.                                   *)
(***************************************************************************)
StartsWithEcho(r) ==
    r.len >= 2 /\ r.head[1] = 162 /\ r.head[2] = 51

C29_ReaderNormalizesFrames ==
    codec.read.kind = "Ok" =>
        /\ rpc # "panicked"
        /\ IF backend = "rusb" /\ StartsWithEcho(codec.read)
           THEN codec.frame = Dispatch(codec.read.len + 1,
                                       <<1, codec.read.head[1], codec.read.head[2]>>)
           ELSE IF codec.read.len >= 63 /\ codec.read.head[1] = 1
                THEN codec.frame = Dispatch(codec.read.len, codec.read.head)
                ELSE codec.frame = Discard

(***************************************************************************)
(* C34: the stop flag is a latch: false when the stream starts and, once   *)
(* set by stop, by drop or by the reader, never reset, so that is_active() *)
(* does not go from false back to true.                                    *)
(***************************************************************************)
C34_StopFlagIsLatch ==
    /\ is_active
    /\ [][~is_active => ~is_active']_vars

\* the flag was raised on a stream whose reader had parsed samples, and the
\* join and the release of the handle have come after it
C34_Witness ==
    /\ ~is_active
    /\ hpc = "dropped"
    /\ parsed > 0
    /\ delivered = <<>>
    /\ drops = 0

(***************************************************************************)
(* C36: whatever the raw-USB reader has read, shifting the frame right by  *)
(* one byte stayed inside the 64-byte buffer and the reader thread did not *)
(* abort.                                                                  *)
(***************************************************************************)
C36_NormalizationInBounds ==
    (backend = "rusb" /\ codec.read.kind = "Ok") =>
        /\ rusb_needs_prefix(codec.read) => copy_within_in_bounds(codec.read.len)
        /\ codec.frame # Panic
        /\ rpc # "panicked"

(***************************************************************************)
(* C37: whenever the reader thread has terminated the stop flag is set:    *)
(* is_active() is false when no reader is running any more.                *)
(***************************************************************************)
C37_TerminatedReaderMeansInactive ==
    ReaderTerminated => ~is_active

(***************************************************************************)
(* C38: in the raw-USB reader a read that times out leaves the counter of  *)
(* consecutive errors as it was, a successful read of any length sets it   *)
(* to 0, and a failed read that is neither a timeout nor the device gone   *)
(* adds exactly 1 to it.                                                   *)
(***************************************************************************)
RusbReadReturned == backend = "rusb" /\ rpc = "read" /\ rpc' # "read"

C38_ErrorCounter ==
    [][RusbReadReturned =>
          /\ codec'.read.kind = "Timeout" => consecutive_errors' = consecutive_errors
          /\ codec'.read.kind = "Ok" => consecutive_errors' = 0
          /\ codec'.read.kind \in {"PipeOrIo", "Other"}
               => consecutive_errors' = consecutive_errors + 1]_vars

\* two reads have failed and the read after them timed out
C38_Witness ==
    /\ backend = "rusb"
    /\ codec.read.kind = "Timeout"
    /\ consecutive_errors = 2
    /\ rpc = "loop"

(***************************************************************************)
(* C39: when the reader finds the queue full the queue keeps its contents  *)
(* in their order, the sample given up is the one just parsed, and the     *)
(* stop flag is as it was.                                                 *)
(***************************************************************************)
Queued(q) == {q[i] : i \in 1..Len(q)}

C39_DropKeepsQueue ==
    [][(ReaderDispatched /\ try_send(queue) = "Full") =>
          /\ queue' = queue
          /\ parsed' \notin Queued(queue')
          /\ Queued(queue) \subseteq Queued(queue')
          /\ stop_flag' = stop_flag]_vars

\* two samples were given up while the first 256 parsed are still queued in
\* order and the stream is active
C39_Witness ==
    /\ drops = 2
    /\ parsed = CHANNEL_CAPACITY + 2
    /\ queue = [i \in 1..CHANNEL_CAPACITY |-> i]
    /\ is_active

(***************************************************************************)
(* C40: while the handle exists the reader never finds the channel         *)
(* disconnected: the Receiver is released only after the reader thread has *)
(* been joined, and the reader ends only at the head of its loop on the    *)
(* flag the handle raised or in one of its own transport-error exits.      *)
(***************************************************************************)
ReaderEnds == ~ReaderTerminated /\ ReaderTerminated'

\* the reader left at the head of its loop, the handle having stored the flag
EndsOnHandleFlag == rpc = "loop" /\ stop_flag /\ hpc # "live"

\* the reader left after a read: the device gone, or too many errors
EndsOnTransportError ==
    /\ rpc = "read"
    /\ stop_flag'
    /\ lastReadGone' \/ consecutive_errors' > MAX_CONSECUTIVE_ERRORS

C40_ReaderNeverSeesDisconnect ==
    /\ [](~ReceiverAlive => ReaderTerminated)
    /\ [][ReaderDispatched => try_send(queue) # "Disconnected"]_vars
    /\ [][ReaderEnds => (EndsOnHandleFlag \/ EndsOnTransportError)]_vars

(***************************************************************************)
(* C31: on the raw-USB path start_slam runs precondition_cycles cycles     *)
(* before the main sequence, each going through open, detach, claim of     *)
(* interface 3, CONFIGURE, EDGE_STREAM and release in this order; nothing  *)
(* that fails in a cycle ends the call, and the main sequence, with its    *)
(* CONFIGURE, comes after the last cycle.                                  *)
(***************************************************************************)
\* what start_slam_rusb did before it entered its main sequence
CycleEvents ==
    IF Happened(IsMainSequenceMark)
    THEN SubSeq(ss.wire, 1, Len(ss.wire) - Len(MainEvents) - 1)
    ELSE ss.wire

IsOn(e, name, iface) == e.ev = name /\ e.arg = <<iface>>

\* where a cycle stands after the event e when it stood at step before it;
\* "end" when e closes the cycle, "no" when e does not belong there
CycleStep(step, e) ==
    CASE step = "open" /\ e.ev = "usb_open" -> IF e.ok THEN "detach" ELSE "open"
      [] step = "open" /\ e.ev = "precondition_cycle_failed" -> "end"
      [] step = "detach" /\ IsOn(e, "detach", HID_INTERFACE) -> "claim"
      [] step = "claim" /\ IsOn(e, "claim", HID_INTERFACE) ->
            IF e.ok THEN "configure" ELSE "open"
      [] step = "configure" /\ IsCommand(e, CMD_CONFIGURE) -> "edge_stream"
      [] step = "edge_stream" /\ IsAckWarning(e) -> "edge_stream"
      [] step = "edge_stream" /\ IsCommand(e, CMD_EDGE_STREAM) -> "release"
      [] step = "release" /\ IsAckWarning(e) -> "release"
      [] step = "release" /\ IsOn(e, "release", HID_INTERFACE) -> "end"
      [] OTHER -> "no"

\* the number of whole cycles the events w[i..] make up when read from step
\* on, n cycles counted before them; -1 if they are not a run of cycles
RECURSIVE CyclesRun(_, _, _, _)
CyclesRun(w, i, step, n) ==
    IF i > Len(w)
    THEN IF step = "open" THEN n ELSE -1
    ELSE LET next == CycleStep(step, w[i])
         IN  IF next = "no" THEN -1
             ELSE IF next = "end" THEN CyclesRun(w, i + 1, "open", n + 1)
             ELSE CyclesRun(w, i + 1, next, n)

InCycle == ss.pc \in {"rusb_pre_open", "rusb_pre_configure", "rusb_pre_edge_stream",
                      "rusb_pre_release"}

MainDetaches ==
    {i \in 1..Len(ss.wire) : ss.wire[i].ev = "detach" /\ i > Len(CycleEvents)}

C32_DetachOnlyAsFallback ==
    StartupPath = "rusb" =>
        /\ \A i \in MainDetaches :
              /\ allow_detach_fallback
              /\ ss.wire[i].arg = <<HID_INTERFACE>>
              /\ ss.wire[i - 1] = ErrEv("claim", <<HID_INTERFACE>>, "access")
              /\ i < Len(ss.wire)
              /\ IsOn(ss.wire[i + 1], "claim", HID_INTERFACE)
              /\ i + 1 < Len(ss.wire) =>
                    /\ ~IsOn(ss.wire[i + 2], "claim", HID_INTERFACE)
                    /\ ss.wire[i + 2].ev # "detach"
        /\ ~allow_detach_fallback => MainDetaches = {}

\* the claim after the detach went through and the start succeeded
C32_Witness ==
    /\ StartupPath = "rusb"
    /\ ReturnedOk
    /\ \E i \in MainDetaches : ss.wire[i + 1].ok

(***************************************************************************)
(* C33: in start_slam_hidapi_macos a command of a retry loop (stereo init, *)
(* stereo start, edge stream) is sent again only after it failed with a    *)
(* disconnected / no such device / not found error and the HID path was    *)
(* re-opened; any other error ends the loop and the call at once, and when *)
(* the re-open fails the call returns the re-open's error and the command  *)
(* is not sent again.                                                      *)
(***************************************************************************)
RetryCommands == {CMD_STEREO_CAMERA_INIT, CMD_STEREO_CAMERA_START, CMD_EDGE_STREAM}

\* the events that are sends of a command of a retry loop
LoopSends ==
    {i \in 1..Len(ss.wire) : \E cmd \in RetryCommands : IsCommand(ss.wire[i], cmd)}

SameCommand(i, j) == ss.wire[i].arg = ss.wire[j].arg

\* the send before i of the command sent at i, 0 if i is its first send
PreviousSend(i) ==
    LET before == {j \in LoopSends : j < i /\ SameCommand(i, j)}
    IN  IF before = {} THEN 0 ELSE CHOOSE j \in before : \A k \in before : k <= j

LostDevice(e) == ~e.ok /\ e.err = "disconnected"

Reopened(e) == e.ev = "reopen" /\ e.ok

\* no send of the model follows the event i
NothingSentAfter(i) == \A k \in LoopSends : k <= i

C33_RetryOnlyAfterReopen ==
    StartupPath = "hidapi_macos" =>
        \A i \in LoopSends :
            /\ PreviousSend(i) # 0 =>
                  /\ LostDevice(ss.wire[PreviousSend(i)])
                  /\ Reopened(ss.wire[i - 1])
                  /\ \A k \in (PreviousSend(i) + 1)..(i - 1) : ss.wire[k].ev = "reopen"
            /\ (~ss.wire[i].ok /\ ~LostDevice(ss.wire[i])) =>
                  /\ i = Len(ss.wire)
                  /\ ReturnedErr
                  /\ ss.result = ErrorOf(ss.wire[i].err)
            /\ (LostDevice(ss.wire[i]) /\ Returned
                  /\ \A k \in (i + 1)..Len(ss.wire) : ~Reopened(ss.wire[k])) =>
                  /\ NothingSentAfter(i)
                  /\ ss.result \in {"Hid", "HidCommand"}

\* stereo init went through on its second send, and the re-open after a lost
\* edge stream command failed: the call returned the error of the re-open
C33_Witness ==
    /\ StartupPath = "hidapi_macos"
    /\ ReturnedErr
    /\ ss.result = "Hid"
    /\ \E i \in LoopSends : PreviousSend(i) # 0 /\ ss.wire[i].ok
    /\ \E i \in LoopSends :
          /\ IsCommand(ss.wire[i], CMD_EDGE_STREAM)
          /\ LostDevice(ss.wire[i])
          /\ NothingSentAfter(i)

(***************************************************************************)
(* C35: opening a raw-USB handle ends: the open with detach makes at most  *)
(* 10 attempts and the open without detach at most 20, an open in which no *)
(* attempt succeeds returns a HidCommand error, and a handle that is       *)
(* returned has interface 3 claimed.                                       *)
(***************************************************************************)
InOpenWithDetach == ss.pc = "rusb_pre_open"

InOpenNoDetach ==
    ss.pc \in {"rusb_enum", "rusb_open", "rusb_claim", "rusb_detach_fallback"}

LastUsbOpen(w) ==
    LET opens == {i \in 1..Len(w) : w[i].ev = "usb_open"}
    IN  IF opens = {} THEN 0 ELSE CHOOSE i \in opens : \A k \in opens : k <= i

\* interface 3 has been claimed on the handle opened last
ClaimedHidInterface(w) ==
    /\ LastUsbOpen(w) # 0
    /\ w[LastUsbOpen(w)].ok
    /\ \E i \in (LastUsbOpen(w) + 1)..Len(w) :
          w[i] = Ev("claim", <<HID_INTERFACE>>, TRUE)

C35_OpenTerminates ==
    /\ [](InOpenWithDetach =>
            ss.sub.n \in 1..(OPEN_WITH_DETACH_ATTEMPTS + 1))
    /\ [](InOpenNoDetach =>
            ss.sub.n \in 1..(OPEN_NO_DETACH_ATTEMPTS + 1))
    /\ [](ss.pc \in {"rusb_open", "rusb_claim", "rusb_detach_fallback"} =>
            ss.sub.n <= OPEN_NO_DETACH_ATTEMPTS)
    /\ [][(InOpenWithDetach /\ ~InOpenWithDetach') =>
            IF ss'.usb
            THEN ClaimedHidInterface(ss'.wire)
            ELSE ss'.wire[Len(ss.wire) + 1]
                   = ErrEv("precondition_cycle_failed", <<>>, "HidCommand")]_vars
    /\ [][(InOpenNoDetach /\ ~InOpenNoDetach') =>
            IF ss'.usb
            THEN ClaimedHidInterface(ss'.wire)
            ELSE ss'.pc = "done" /\ ss'.result = "HidCommand"]_vars
    /\ InOpenWithDetach ~> ~InOpenWithDetach
    /\ InOpenNoDetach ~> ~InOpenNoDetach

\* the open with detach gave up after its 10 attempts and the open without
\* detach after its 20: start_slam returned HidCommand
C35_Witness ==
    /\ Returned
    /\ ss.result = "HidCommand"
    /\ ss.faults = OPEN_WITH_DETACH_ATTEMPTS + OPEN_NO_DETACH_ATTEMPTS
    /\ ss.wire = <<ErrEv("precondition_cycle_failed", <<>>, "HidCommand"),
                   Ev("main_sequence", <<>>, TRUE)>>

============================================================================
